---- MODULE Spec2Model ----
(***************************************************************************)
(* A model of the Petlibro Home Assistant integration: the config flow     *)
(* (setup and reauthentication), and the options flow's account_settings   *)
(* step with its change detection (collect_updates, validate_enum) and the *)
(* cascade of unit changes to the sensors' entity-registry options.        *)
(*                                                                         *)
(* Python values are modelled as records [t, c, v]: t is the Python type   *)
(* ("str", "enum", "int", "none"), c the enum class of an enum member or   *)
(* of the int that is a member's .value, v the string, or the member name. *)
(*                                                                         *)
(* config_flow.py and number.py read the member's gender and unit          *)
(* attributes as members of the enums Gender and Unit (member.gender.lower,*)
(* unit.device_class, member.feedUnitType.symbol).  The enum Unit, the     *)
(* table ROUNDING_RULES, the hub and the vendor API are not among the      *)
(* source files; they are modelled from their uses in config_flow.py.      *)
(***************************************************************************)
EXTENDS Integers, Sequences, FiniteSets, TLC

\* ------------------------------------------------------------------------
\* Bounds of the model
\* ------------------------------------------------------------------------

\* How many sensors the hub registers under each (unit type, device class).
NumSensors == 1

\* How many logins the vendor API serves in one behaviour of the config flow.
MaxLogins == 2

\* How many config flows (setup or reauthentication) one behaviour runs.
NumFlows == 2

\* How many operations (polls, control methods) one behaviour runs on the
\* device.
MaxOps == 2

\* How many fetches of one refresh return None.
MaxMissing == 1

\* How many polls and async_select_option calls one behaviour of the select
\* entity runs.
MaxSelectEvents == 3

\* Calls of the fountain's methods in one behaviour.
MaxCalls == 2

\* Coordinator updates a number entity handles in one behaviour.
MaxUpdates == 2

\* State writes of the member entities in one behaviour.
MaxWrites == 2

\* ------------------------------------------------------------------------
\* Python values
\* ------------------------------------------------------------------------

PyStr(s) == [t |-> "str", c |-> "", v |-> s]

PyEnum(cls, name) == [t |-> "enum", c |-> cls, v |-> name]

\* The int that is the .value of member `name` of the IntEnum `cls`.
PyInt(cls, name) == [t |-> "int", c |-> cls, v |-> name]

PyNone == [t |-> "none", c |-> "", v |-> ""]

\* a == b in Python: an IntEnum member equals the int that is its value,
\* and never equals a str or None.
PyEq(a, b) ==
    \/ a = b
    \/ /\ a.t \in {"enum", "int"}
       /\ b.t \in {"enum", "int"}
       /\ a.c = b.c
       /\ a.v = b.v

\* str(x).upper(), on the strings the model uses.
UpperTable ==
    [s \in {"none", "male", "female", "cups", "ounces", "grams", "milliliters",
            "water_ounces", "water_milliliters", "pounds", "kilograms",
            "None", "bogus"} |->
        CASE s = "none" -> "NONE"
          [] s = "male" -> "MALE"
          [] s = "female" -> "FEMALE"
          [] s = "cups" -> "CUPS"
          [] s = "ounces" -> "OUNCES"
          [] s = "grams" -> "GRAMS"
          [] s = "milliliters" -> "MILLILITERS"
          [] s = "water_ounces" -> "WATER_OUNCES"
          [] s = "water_milliliters" -> "WATER_MILLILITERS"
          [] s = "pounds" -> "POUNDS"
          [] s = "kilograms" -> "KILOGRAMS"
          [] s = "None" -> "NONE"
          [] s = "bogus" -> "BOGUS"]

\* str(form_value).upper() of validate_enum: str(None) is "None", str of an
\* IntEnum member is its name (Gender.__str__, Unit.__str__).
StrUpper(x) ==
    CASE x.t = "none" -> UpperTable["None"]
      [] x.t = "str" -> UpperTable[x.v]
      [] x.t = "enum" -> x.v
      [] OTHER -> "0"

\* member.lower: the lower-cased name of an enum member.
LowerTable ==
    [n \in {"NONE", "MALE", "FEMALE", "CUPS", "OUNCES", "GRAMS", "MILLILITERS",
            "WATER_OUNCES", "WATER_MILLILITERS", "POUNDS", "KILOGRAMS"} |->
        CHOOSE s \in DOMAIN UpperTable : s # "None" /\ UpperTable[s] = n]

\* ------------------------------------------------------------------------
\* const.py: enums and API keys
\* ------------------------------------------------------------------------

\* Gender.__members__
GenderMembers == {"NONE", "MALE", "FEMALE"}

\* Unit.__members__, as named by _get_measurement_schema.
UnitMembers == {"CUPS", "OUNCES", "GRAMS", "MILLILITERS",
                "WATER_OUNCES", "WATER_MILLILITERS", "POUNDS", "KILOGRAMS"}

EnumMembers(cls) == IF cls = "Gender" THEN GenderMembers ELSE UnitMembers

\* APIKey.NICKNAME, GENDER, FEED_UNIT, WATER_UNIT, WEIGHT_UNIT
InfoFields == {"nickname", "gender"}

UnitFields == {"feedUnitType", "waterUnitType", "weightUnitType"}

\* The attributes of Member that the options flow reads with getattr.
MemberAttrs == InfoFields \cup UnitFields

\* Unit.device_class: the sensor device class a unit can be shown under;
\* cups have none.
device_class(unit) ==
    CASE unit \in {"OUNCES", "GRAMS", "POUNDS", "KILOGRAMS"} -> "weight"
      [] unit \in {"MILLILITERS", "WATER_OUNCES", "WATER_MILLILITERS"} -> "volume"
      [] OTHER -> "none"

\* Unit.symbol
symbol(unit) ==
    CASE unit = "CUPS" -> "cup"
      [] unit = "OUNCES" -> "oz"
      [] unit = "GRAMS" -> "g"
      [] unit = "MILLILITERS" -> "mL"
      [] unit = "WATER_OUNCES" -> "fl. oz."
      [] unit = "WATER_MILLILITERS" -> "mL"
      [] unit = "POUNDS" -> "lb"
      [] unit = "KILOGRAMS" -> "kg"

\* ROUNDING_RULES: display precision per unit; a unit without an entry is
\* absent from the domain.
ROUNDING_RULES ==
    [u \in {"CUPS", "OUNCES", "WATER_OUNCES", "POUNDS", "KILOGRAMS"} |->
        IF u \in {"CUPS", "KILOGRAMS"} THEN 2 ELSE 1]

\* The options of the selectors of the account settings form
\* (_show_account_settings_form, _get_measurement_schema).
GenderOptions == {LowerTable[g] : g \in GenderMembers}

FeedUnitOptions == {LowerTable[u] : u \in {"CUPS", "OUNCES", "GRAMS", "MILLILITERS"}}

WaterUnitOptions == {LowerTable[u] : u \in {"WATER_OUNCES", "WATER_MILLILITERS"}}

WeightUnitOptions == {LowerTable[u] : u \in {"POUNDS", "KILOGRAMS"}}

Nicknames == {"", "rex"}

\* ------------------------------------------------------------------------
\* State
\* ------------------------------------------------------------------------

VARIABLES
    member,         \* hub.member as the options flow reads it: attribute -> value
    has_member,     \* whether hub.member is set
    account,        \* the account as the vendor holds it (what member_info returns)
    registry,       \* entity registry: sensor unique id -> options
    options_flow,   \* the options flow: position, submitted input, collected updates
    api_calls,      \* calls the options flow made on the API and the hub, in order
    entries,        \* hass.config_entries: the config entries, in creation order
    flows,          \* the config flows: flow id -> position and fields
    logins,         \* the logins the vendor API served, in order
    collect_call,   \* one call of collect_updates: its arguments and its result
    mem,            \* a Member: its _data, the latest member_info response, properties read
    dev,            \* a Device: its _data, manual feed quantity, and the operation in progress
    sel,            \* a select entity of the fountain and the device state it reads
    fnt,            \* a fountain: its schedule at the vendor, its cache, the calls in progress
    num,            \* a number entity and what its coordinator updates did
    ment            \* the members of the accounts and their MemberEntity

vars == <<member, has_member, account, registry, options_flow, api_calls,
          entries, flows, logins, collect_call, mem, dev, sel, fnt, num, ment>>

options_vars == <<member, has_member, account, registry, options_flow, api_calls>>

config_vars == <<entries, flows, logins>>

entity_vars == <<mem, dev, sel, fnt, num, ment>>

\* An empty dict.
EmptyDict == [k \in {} |-> PyNone]

\* dict.get(key), None when the key is absent.
DictGet(d, k) == IF k \in DOMAIN d THEN d[k] ELSE PyNone

\* ------------------------------------------------------------------------
\* config_flow.py: validation and change detection
\* ------------------------------------------------------------------------

\* validate_enum looking the string up without upper-casing it.
validate_enum_no_upper(api_key, form_value, enum_cls) ==
    IF form_value.t = "enum" /\ form_value.c = enum_cls
    THEN PyInt(enum_cls, form_value.v)
    ELSE IF form_value.t = "str" /\ form_value.v \in EnumMembers(enum_cls)
         THEN PyEnum(enum_cls, form_value.v)
         ELSE PyNone

\* PetlibroOptionsFlow.validate_enum: the int value of a member of enum_cls,
\* the member named by the upper-cased string, or None.
validate_enum(api_key, form_value, enum_cls) ==
    IF form_value.t = "enum" /\ form_value.c = enum_cls
    THEN PyInt(enum_cls, form_value.v)
    ELSE IF StrUpper(form_value) \in EnumMembers(enum_cls)
         THEN PyEnum(enum_cls, StrUpper(form_value))
         ELSE PyNone

\* The converters async_step_account_settings passes as `special`:
\* nickname: lambda v: v or "";  gender: validate_enum(API.GENDER, v, Gender).
special_convert(api_key, v) ==
    IF api_key = "nickname"
    THEN (IF v.t = "none" \/ v = PyStr("") THEN PyStr("") ELSE v)
    ELSE validate_enum(api_key, v, "Gender")

\* The value collect_updates derives from the form value of api_key.
api_value_of(api_key, form_value, enum_cls, special) ==
    IF api_key \in special THEN special_convert(api_key, form_value)
    ELSE IF enum_cls # "" THEN validate_enum(api_key, form_value, enum_cls)
    ELSE form_value

\* One pass of the loop without the comparison of the converted value
\* (line 391).
is_updated_no_recheck(m, api_key, user_input, enum_cls, special) ==
    LET form_value == DictGet(user_input, api_key)
        api_value == api_value_of(api_key, form_value, enum_cls, special)
    IN  /\ api_key \in DOMAIN m
        /\ ~PyEq(form_value, m[api_key])
        /\ ~(api_key \notin special /\ enum_cls # "" /\ api_value = PyNone)

\* Whether collect_updates puts api_key into the updates: one pass of its loop.
is_updated(m, api_key, user_input, enum_cls, special) ==
    LET form_value == DictGet(user_input, api_key)
        api_value == api_value_of(api_key, form_value, enum_cls, special)
    IN  /\ api_key \in DOMAIN m                    \* else: unsupported, continue
        /\ ~PyEq(form_value, m[api_key])           \* else: continue
        /\ ~(api_key \notin special /\ enum_cls # "" /\ api_value = PyNone)
        /\ ~PyEq(api_value, m[api_key])

\* PetlibroOptionsFlow.collect_updates
collect_updates(m, fields, user_input, enum_cls, special) ==
    [k \in {f \in fields : is_updated(m, f, user_input, enum_cls, special)} |->
        api_value_of(k, DictGet(user_input, k), enum_cls, special)]

\* ------------------------------------------------------------------------
\* The hub's sensors and the entity registry
\* ------------------------------------------------------------------------

\* The device classes hub.unit_sensor_unique_ids holds under each unit type.
unit_sensor_classes ==
    [ut \in UnitFields |->
        CASE ut = "feedUnitType" -> {"weight", "volume"}
          [] ut = "waterUnitType" -> {"volume"}
          [] ut = "weightUnitType" -> {"weight"}]

\* hub.unit_sensor_unique_ids.get(unit_type, {}).get(device_class, [])
unit_sensor_unique_ids(ut, dc) ==
    IF ut \in DOMAIN unit_sensor_classes /\ dc \in unit_sensor_classes[ut]
    THEN {<<ut, dc, i>> : i \in 1..NumSensors}
    ELSE {}

Sensors ==
    UNION {unit_sensor_unique_ids(ut, dc) : ut \in UnitFields, dc \in {"weight", "volume"}}

\* The options of a sensor the flow has not written.
NoOptions ==
    [unit_of_measurement |-> "", display_precision |-> -1,
     suggested_display_precision |-> -1]

\* ROUNDING_RULES.get(target_unit, 0)
display_precision_of(target_unit) ==
    IF target_unit \in DOMAIN ROUNDING_RULES THEN ROUNDING_RULES[target_unit] ELSE 0

\* The options dict written for a target unit (account_settings, lines 241-244).
options_of(target_unit) ==
    [unit_of_measurement |-> symbol(target_unit),
     display_precision |-> display_precision_of(target_unit),
     suggested_display_precision |-> display_precision_of(target_unit)]

\* unit_of reading the member's unit whatever was collected.
unit_of_member_only(m, update_setting, unit_type) ==
    IF unit_type \in DOMAIN m THEN m[unit_type].v ELSE ""

\* The unit account_settings works with for a unit type (lines 230-231): the
\* collected new unit, else the member's current one ("" stands for None).
unit_of(m, update_setting, unit_type) ==
    LET input == DictGet(update_setting, unit_type)
    IN  IF input.t \in {"enum", "int"} THEN input.v
        ELSE IF unit_type \in DOMAIN m THEN m[unit_type].v
        ELSE ""

\* The `continue` of line 232 without its test of update_setting.
unit_type_skipped_loose(m, update_setting, update_all_units, unit_type) ==
    LET input == DictGet(update_setting, unit_type)
        unit == IF input.t \in {"enum", "int"} THEN input.v
                ELSE IF unit_type \in DOMAIN m THEN m[unit_type].v ELSE ""
    IN  /\ (unit = "" \/ device_class(unit) = "none")
        /\ ~update_all_units

\* The `continue` of line 232.
unit_type_skipped(m, update_setting, update_all_units, unit_type) ==
    LET unit == unit_of(m, update_setting, unit_type)
    IN  /\ \/ unit_type \notin DOMAIN update_setting
           \/ unit = ""
           \/ device_class(unit) = "none"
        /\ ~update_all_units

\* target_units without the two-class case of the feed unit.
target_units_single(unit_type, unit, update_all_units) ==
    {<<device_class(unit), unit>>}

\* target_units of lines 235-239, as a set of <<device class, target unit>>.
target_units(unit_type, unit, update_all_units) ==
    IF update_all_units /\ unit_type = "feedUnitType"
    THEN {<<"weight", IF device_class(unit) = "weight" THEN unit ELSE "GRAMS">>,
          <<"volume", IF device_class(unit) = "volume" THEN unit ELSE "MILLILITERS">>}
    ELSE {<<device_class(unit), unit>>}

\* The registry.async_update_entity_options calls of one account_settings
\* submission (lines 227-248), as a set of <<unique id, options>>.
registry_writes(m, update_setting, update_all_units) ==
    IF DOMAIN update_setting = {} /\ ~update_all_units
    THEN {}
    ELSE UNION {
            UNION {
                {<<unique_id, options_of(tu[2])>> :
                    unique_id \in unit_sensor_unique_ids(unit_type, tu[1])} :
                tu \in target_units(unit_type,
                                    unit_of(m, update_setting, unit_type),
                                    update_all_units)} :
            unit_type \in {ut \in DOMAIN unit_sensor_classes :
                ~unit_type_skipped(m, update_setting, update_all_units, ut)}}

\* The registry after the writes.
registry_after(reg, writes) ==
    [id \in DOMAIN reg |->
        IF \E w \in writes : w[1] = id
        THEN (CHOOSE w \in writes : w[1] = id)[2]
        ELSE reg[id]]

\* ------------------------------------------------------------------------
\* member.py and the vendor account
\* ------------------------------------------------------------------------

\* Member.update_data: self._data.update(data)
update_data(m, data) ==
    [k \in DOMAIN m \cup DOMAIN data |-> IF k \in DOMAIN data THEN data[k] ELSE m[k]]

\* What the vendor stores for a value sent to it: the enum member for its int
\* value; None is not stored.
stored_value(old, sent) ==
    CASE sent.t = "int" -> PyEnum(sent.c, sent.v)
      [] sent.t = "none" -> old
      [] OTHER -> sent

\* The account after the vendor applied an update dict.
account_after(acc, update) ==
    [k \in DOMAIN acc |->
        IF k \in DOMAIN update THEN stored_value(acc[k], update[k]) ELSE acc[k]]

\* The member states an account can be in.
MemberStates ==
    {[k \in MemberAttrs |->
        CASE k = "nickname" -> PyStr(n)
          [] k = "gender" -> PyEnum("Gender", g)
          [] k = "feedUnitType" -> PyEnum("Unit", f)
          [] k = "waterUnitType" -> PyEnum("Unit", w)
          [] k = "weightUnitType" -> PyEnum("Unit", p)] :
        n \in Nicknames, g \in GenderMembers,
        f \in {UpperTable[o] : o \in FeedUnitOptions},
        w \in {UpperTable[o] : o \in WaterUnitOptions},
        p \in {UpperTable[o] : o \in WeightUnitOptions}}

\* What a validated account settings form can submit: the info part
\* (nickname is optional), and the measurement_unit section.
InfoInputs ==
    {[k \in {"gender"} |-> PyStr(g)] : g \in GenderOptions}
    \cup {[k \in InfoFields |-> IF k = "gender" THEN PyStr(g) ELSE PyStr(n)] :
            g \in GenderOptions, n \in Nicknames}

UnitInputs ==
    {[k \in UnitFields |->
        CASE k = "feedUnitType" -> PyStr(f)
          [] k = "waterUnitType" -> PyStr(w)
          [] k = "weightUnitType" -> PyStr(p)] :
        f \in FeedUnitOptions, w \in WaterUnitOptions, p \in WeightUnitOptions}

\* ------------------------------------------------------------------------
\* The options flow
\* ------------------------------------------------------------------------

OptionsFlowStart ==
    [pc |-> "start", info_input |-> EmptyDict, unit_input |-> EmptyDict,
     update_all_units |-> FALSE, update_info |-> EmptyDict,
     update_setting |-> EmptyDict, member_before |-> EmptyDict,
     writes |-> {}, no_error |-> FALSE, reason |-> ""]

OptionsInit ==
    /\ has_member \in BOOLEAN
    /\ member \in MemberStates
    /\ account = member
    /\ registry = [id \in Sensors |-> NoOptions]
    /\ options_flow = OptionsFlowStart
    /\ api_calls = <<>>

\* PetlibroOptionsFlow.async_step_init: shows the menu.
async_step_init ==
    /\ options_flow.pc = "start"
    /\ options_flow' = [options_flow EXCEPT !.pc = "menu"]
    /\ UNCHANGED <<member, has_member, account, registry, api_calls>>
    /\ UNCHANGED <<config_vars, collect_call, entity_vars>>

\* async_step_account_settings without input: aborts when the hub has no
\* member, shows the form otherwise.
account_settings_show_form ==
    /\ options_flow.pc = "menu"
    /\ options_flow' =
        IF ~has_member
        THEN [options_flow EXCEPT !.pc = "done", !.reason = "account_update_nomember"]
        ELSE [options_flow EXCEPT !.pc = "form"]
    /\ UNCHANGED <<member, has_member, account, registry, api_calls>>
    /\ UNCHANGED <<config_vars, collect_call, entity_vars>>

\* The reason of the abort when nothing changed (line 252).
nochanges_reason(update_all_units) ==
    IF update_all_units
    THEN "account_update_nochanges_update_sensors"
    ELSE "account_update_nochanges"

\* has_changes asking for both dicts to hold a change.
has_changes_both(update_info, update_setting) ==
    DOMAIN update_info # {} /\ DOMAIN update_setting # {}

\* Whether account_settings goes on to member_update_info (line 250).
has_changes(update_info, update_setting) ==
    DOMAIN update_info # {} \/ DOMAIN update_setting # {}

\* async_step_account_settings with the submitted form, up to its first
\* await: collects the updates, writes the sensors' registry options, and
\* either aborts (nothing changed) or calls api.member_update_info.
account_settings_submit(info_input, unit_input, update_all_units) ==
    /\ options_flow.pc = "form"
    /\ LET update_setting ==
               collect_updates(member, UnitFields, unit_input, "Unit", {})
           update_info ==
               collect_updates(member, InfoFields, info_input, "", InfoFields)
           writes == registry_writes(member, update_setting, update_all_units)
           changed == has_changes(update_info, update_setting)
       IN  /\ registry' = registry_after(registry, writes)
           /\ options_flow' =
                [options_flow EXCEPT
                    !.pc = IF changed THEN "await_update" ELSE "done",
                    !.info_input = info_input,
                    !.unit_input = unit_input,
                    !.update_all_units = update_all_units,
                    !.update_info = update_info,
                    !.update_setting = update_setting,
                    !.member_before = member,
                    !.writes = writes,
                    !.reason = IF changed THEN ""
                               ELSE nochanges_reason(update_all_units)]
           /\ api_calls' =
                IF changed
                THEN Append(api_calls,
                        [op |-> "member_update_info", info |-> update_info,
                         setting |-> update_setting])
                ELSE api_calls
    /\ UNCHANGED <<member, has_member, account>>
    /\ UNCHANGED <<config_vars, collect_call, entity_vars>>

\* api.member_update_info returns: without error the vendor holds the new
\* info and settings, with an error it holds what it held.  The flow goes on
\* to hub.async_refresh(force_member=True) (line 256).
member_update_info_returns(no_error) ==
    /\ options_flow.pc = "await_update"
    /\ account' =
        IF no_error
        THEN account_after(account_after(account, options_flow.update_info),
                           options_flow.update_setting)
        ELSE account
    /\ options_flow' = [options_flow EXCEPT !.pc = "await_refresh",
                                            !.no_error = no_error]
    /\ api_calls' = Append(api_calls,
            [op |-> "async_refresh", info |-> EmptyDict, setting |-> EmptyDict])
    /\ UNCHANGED <<member, has_member, registry>>
    /\ UNCHANGED <<config_vars, collect_call, entity_vars>>

\* The reason of the abort after the update (line 259).
update_reason(no_error) ==
    IF no_error THEN "account_update_success" ELSE "error_check_logs"

\* hub.async_refresh(force_member=True) returns: Member.refresh has stored
\* the account the vendor holds; the flow aborts with its reason.
async_refresh_returns ==
    /\ options_flow.pc = "await_refresh"
    /\ member' = update_data(member, account)
    /\ options_flow' = [options_flow EXCEPT
            !.pc = "done", !.reason = update_reason(options_flow.no_error)]
    /\ UNCHANGED <<has_member, account, registry, api_calls>>
    /\ UNCHANGED <<config_vars, collect_call, entity_vars>>

OptionsNext ==
    \/ async_step_init
    \/ account_settings_show_form
    \/ \E info_input \in InfoInputs, unit_input \in UnitInputs,
          update_all_units \in BOOLEAN :
            account_settings_submit(info_input, unit_input, update_all_units)
    \/ \E no_error \in BOOLEAN : member_update_info_returns(no_error)
    \/ async_refresh_returns

\* ------------------------------------------------------------------------
\* collect_updates as a function of its arguments
\* ------------------------------------------------------------------------

\* Members a call is made on.
CollectMembers ==
    {m \in MemberStates :
        /\ m["gender"].v \in {"NONE", "MALE"}
        /\ m["feedUnitType"].v \in {"CUPS", "GRAMS"}
        /\ m["waterUnitType"].v = "WATER_OUNCES"
        /\ m["weightUnitType"].v = "POUNDS"}

\* The values a caller may pass for a field: strings that name a member,
\* a string that names none, an enum member, or nothing (None).
CollectValues(api_key) ==
    CASE api_key = "nickname" -> {PyNone, PyStr(""), PyStr("rex")}
      [] api_key = "gender" ->
            {PyNone, PyStr("none"), PyStr("male"), PyStr("female"), PyStr("bogus"),
             PyEnum("Gender", "MALE")}
      [] api_key \in UnitFields ->
            {PyNone, PyStr("cups"), PyStr("grams"), PyStr("water_ounces"),
             PyStr("pounds"), PyStr("bogus"), PyEnum("Unit", "GRAMS")}
      [] OTHER -> {PyNone, PyStr("bogus")}

\* The dicts over `fields`; a field whose value is None is left out.
CollectInputs(fields) ==
    {[k \in {f \in fields : c[f] # PyNone} |-> c[k]] :
        c \in {c \in [fields -> UNION {CollectValues(f) : f \in fields}] :
                    \A f \in fields : c[f] \in CollectValues(f)}}

\* The three shapes of a call: the unit settings and the account info as
\* account_settings passes them (lines 212-225), with a key the member does
\* not have, and a call with neither enum class nor converters.
CollectShapes ==
    {[fields |-> UnitFields \cup {"timezone"}, enum_cls |-> "Unit", special |-> {}],
     [fields |-> InfoFields \cup {"timezone"}, enum_cls |-> "", special |-> InfoFields],
     [fields |-> {"nickname"}, enum_cls |-> "", special |-> {}]}

NoCollectCall ==
    [pc |-> "none", m |-> EmptyDict, fields |-> {}, enum_cls |-> "", special |-> {},
     user_input |-> EmptyDict, result |-> EmptyDict]

CollectInit ==
    \E m \in CollectMembers, shape \in CollectShapes :
        \E user_input \in CollectInputs(shape.fields) :
            collect_call =
                [pc |-> "call", m |-> m, fields |-> shape.fields,
                 enum_cls |-> shape.enum_cls, special |-> shape.special,
                 user_input |-> user_input, result |-> EmptyDict]

\* The call returns the updates.
collect_updates_call ==
    /\ collect_call.pc = "call"
    /\ collect_call' =
        [collect_call EXCEPT
            !.pc = "returned",
            !.result = collect_updates(collect_call.m, collect_call.fields,
                                       collect_call.user_input,
                                       collect_call.enum_cls, collect_call.special)]
    /\ UNCHANGED <<options_vars, config_vars, entity_vars>>

\* ------------------------------------------------------------------------
\* The config flow: setup (user step) and reauthentication
\* ------------------------------------------------------------------------

Emails == {"ann@x", "bob@x"}

Passwords == {"pw1", "pw2"}

\* STEP_USER_DATA_SCHEMA: vol.In(["US"])
Regions == {"US"}

FlowIds == 1..NumFlows

\* What api.login can do: return a token, or raise.
LoginOutcomes == {"ok", "PetLibroCannotConnect", "PetLibroInvalidAuth", "Exception"}

NoData == [region |-> "", email |-> "", password |-> "", api_token |-> -1]

\* A flow that has not been started; token -1 stands for the unset attribute.
NoFlow ==
    [kind |-> "none", pc |-> "none", email |-> "", password |-> "", region |-> "",
     token |-> -1, errors |-> "", result |-> "", entry_id |-> 0, created |-> 0,
     data_before |-> NoData, login |-> 0]

\* An entry set up before the behaviour starts; its token is token 0.
OldEntry ==
    [data |-> [region |-> "US", email |-> "ann@x", password |-> "pw1", api_token |-> 0],
     created_by |-> 0, updated_by |-> 0, reloads |-> 0, reloaded_data |-> NoData]

ConfigInit ==
    /\ entries \in {<<>>, <<OldEntry>>}
    /\ flows = [f \in FlowIds |-> NoFlow]
    /\ logins = <<>>

\* self._async_abort_entries_match({CONF_EMAIL: email}): an entry of the
\* domain holds this email.
entries_match(es, email) == \E i \in 1..Len(es) : es[i].data.email = email

\* _validate_input without the handler of the other exceptions.
validate_input_no_catch_all(outcome) ==
    CASE outcome = "ok" -> [raised |-> FALSE, value |-> ""]
      [] outcome = "PetLibroCannotConnect" -> [raised |-> FALSE, value |-> "cannot_connect"]
      [] outcome = "PetLibroInvalidAuth" -> [raised |-> FALSE, value |-> "invalid_auth"]
      [] OTHER -> [raised |-> TRUE, value |-> ""]

\* _validate_input taking a login that raised PetLibroInvalidAuth for a
\* login that returned.
validate_input_invalid_auth_passes(outcome) ==
    CASE outcome = "ok" -> [raised |-> FALSE, value |-> ""]
      [] outcome = "PetLibroCannotConnect" -> [raised |-> FALSE, value |-> "cannot_connect"]
      [] outcome = "PetLibroInvalidAuth" -> [raised |-> FALSE, value |-> ""]
      [] OTHER -> [raised |-> FALSE, value |-> "unknown"]

\* PetlibroConfigFlow._validate_input, given what api.login did: whether it
\* raises, and the string it returns.
validate_input(outcome) ==
    CASE outcome = "ok" -> [raised |-> FALSE, value |-> ""]
      [] outcome = "PetLibroCannotConnect" -> [raised |-> FALSE, value |-> "cannot_connect"]
      [] outcome = "PetLibroInvalidAuth" -> [raised |-> FALSE, value |-> "invalid_auth"]
      [] OTHER -> [raised |-> FALSE, value |-> "unknown"]

\* The entry data of the user step, keeping the token out.
user_entry_data_no_token(self) ==
    [region |-> self.region, email |-> self.email, password |-> self.password,
     api_token |-> -1]

\* The data of the entry async_step_user creates (lines 73-78).
user_entry_data(self) ==
    [region |-> self.region, email |-> self.email, password |-> self.password,
     api_token |-> self.token]

\* The reauth data taking the credentials of the entry as they are.
reauth_entry_data_old_password(self, entry) ==
    [region |-> self.region, email |-> self.email,
     password |-> entry.data.password, api_token |-> self.token]

\* The data async_step_reauth_confirm passes to async_update_entry
\* (lines 109-114).
reauth_entry_data(self, entry) ==
    [region |-> self.region, email |-> self.email, password |-> self.password,
     api_token |-> self.token]

\* The login of flow f that has not returned yet.
start_login(f, self) ==
    Append(logins,
        [flow |-> f, email |-> self.email, password |-> self.password,
         region |-> self.region, outcome |-> "pending",
         result |-> [raised |-> FALSE, value |-> ""], stored_token |-> -1])

\* async_step_user without input: the user form.
async_step_user_show(f) ==
    /\ flows[f].kind = "none"
    /\ flows' = [flows EXCEPT ![f] = [NoFlow EXCEPT !.kind = "user", !.pc = "form"]]
    /\ UNCHANGED <<entries, logins>>
    /\ UNCHANGED <<options_vars, collect_call, entity_vars>>

\* async_step_user with input, up to the login it awaits: aborts when an
\* entry holds the email, else stores the input and logs in.
async_step_user_submit(f, user_input) ==
    /\ flows[f].kind = "user" /\ flows[f].pc = "form"
    /\ IF entries_match(entries, user_input.email)
       THEN /\ flows' = [flows EXCEPT ![f].pc = "done",
                                      ![f].result = "abort:already_configured"]
            /\ UNCHANGED logins
       ELSE /\ Len(logins) < MaxLogins
            /\ LET self == [flows[f] EXCEPT !.email = user_input.email,
                                            !.password = user_input.password,
                                            !.region = user_input.region,
                                            !.errors = "",
                                            !.pc = "login",
                                            !.login = Len(logins) + 1]
               IN  /\ flows' = [flows EXCEPT ![f] = self]
                   /\ logins' = start_login(f, self)
    /\ UNCHANGED entries
    /\ UNCHANGED <<options_vars, collect_call, entity_vars>>

\* The login of flow f returns or raises: _validate_input stores the token
\* of a login that returned, and gives its result.
finish_login(f, outcome) ==
    LET i == flows[f].login
        token == IF outcome = "ok" THEN i ELSE flows[f].token
    IN  [logins EXCEPT ![i].outcome = outcome,
                       ![i].result = validate_input(outcome),
                       ![i].stored_token = token]

\* async_step_user after _validate_input: creates the entry, or shows the
\* form again with the error.
user_login_returns(f, outcome) ==
    /\ UNCHANGED <<options_vars, collect_call, entity_vars>>
    /\ flows[f].kind = "user" /\ flows[f].pc = "login"
    /\ logins' = finish_login(f, outcome)
    /\ LET res == validate_input(outcome)
           self == [flows[f] EXCEPT !.token = logins'[flows[f].login].stored_token]
       IN  IF res.raised
           THEN /\ flows' = [flows EXCEPT ![f] = [self EXCEPT !.pc = "done",
                                                             !.result = "raised"]]
                /\ UNCHANGED entries
           ELSE IF res.value = ""
           THEN /\ entries' = Append(entries,
                        [data |-> user_entry_data(self), created_by |-> f,
                         updated_by |-> 0, reloads |-> 0, reloaded_data |-> NoData])
                /\ flows' = [flows EXCEPT ![f] =
                        [self EXCEPT !.pc = "done", !.result = "create_entry",
                                     !.created = Len(entries) + 1]]
           ELSE /\ flows' = [flows EXCEPT ![f] =
                        [self EXCEPT !.pc = "form", !.errors = res.value]]
                /\ UNCHANGED entries

\* async_step_reauth for entry e, and async_step_reauth_confirm without
\* input: the password form.  One reauth flow runs per entry at a time.
async_step_reauth(f, e) ==
    /\ flows[f].kind = "none"
    /\ e \in 1..Len(entries)
    /\ \A g \in FlowIds :
            ~(flows[g].kind = "reauth" /\ flows[g].entry_id = e /\ flows[g].pc # "done")
    /\ flows' = [flows EXCEPT ![f] =
            [NoFlow EXCEPT !.kind = "reauth", !.pc = "form", !.entry_id = e,
                           !.email = entries[e].data.email,
                           !.region = entries[e].data.region,
                           !.data_before = entries[e].data]]
    /\ UNCHANGED <<entries, logins>>
    /\ UNCHANGED <<options_vars, collect_call, entity_vars>>

\* async_step_reauth_confirm with the password, up to the login it awaits.
async_step_reauth_confirm_submit(f, password) ==
    /\ flows[f].kind = "reauth" /\ flows[f].pc = "form"
    /\ Len(logins) < MaxLogins
    /\ LET self == [flows[f] EXCEPT !.password = password, !.errors = "",
                                    !.pc = "login", !.login = Len(logins) + 1]
       IN  /\ flows' = [flows EXCEPT ![f] = self]
           /\ logins' = start_login(f, self)
    /\ UNCHANGED entries
    /\ UNCHANGED <<options_vars, collect_call, entity_vars>>

\* async_step_reauth_confirm after _validate_input: updates the entry and
\* awaits its reload, or shows the form again with the error.
reauth_login_returns(f, outcome) ==
    /\ UNCHANGED <<options_vars, collect_call, entity_vars>>
    /\ flows[f].kind = "reauth" /\ flows[f].pc = "login"
    /\ logins' = finish_login(f, outcome)
    /\ LET res == validate_input(outcome)
           self == [flows[f] EXCEPT !.token = logins'[flows[f].login].stored_token]
           e == flows[f].entry_id
       IN  IF res.raised
           THEN /\ flows' = [flows EXCEPT ![f] = [self EXCEPT !.pc = "done",
                                                             !.result = "raised"]]
                /\ UNCHANGED entries
           ELSE IF res.value = ""
           THEN /\ entries' = [entries EXCEPT
                        ![e].data = reauth_entry_data(self, entries[e]),
                        ![e].updated_by = f]
                /\ flows' = [flows EXCEPT ![f] = [self EXCEPT !.pc = "reload"]]
           ELSE /\ flows' = [flows EXCEPT ![f] =
                        [self EXCEPT !.pc = "form", !.errors = res.value]]
                /\ UNCHANGED entries

\* hass.config_entries.async_reload returns: the entry runs on the data it
\* holds now; the flow aborts with "reauth_successful".
async_reload_returns(f) ==
    /\ flows[f].kind = "reauth" /\ flows[f].pc = "reload"
    /\ LET e == flows[f].entry_id
       IN  entries' = [entries EXCEPT ![e].reloads = @ + 1,
                                      ![e].reloaded_data = entries[e].data]
    /\ flows' = [flows EXCEPT ![f].pc = "done",
                              ![f].result = "abort:reauth_successful"]
    /\ UNCHANGED logins
    /\ UNCHANGED <<options_vars, collect_call, entity_vars>>

UserInputs ==
    {[region |-> r, email |-> e, password |-> p] :
        r \in Regions, e \in Emails, p \in Passwords}

ConfigNext ==
    \E f \in FlowIds :
        \/ async_step_user_show(f)
        \/ \E user_input \in UserInputs : async_step_user_submit(f, user_input)
        \/ \E outcome \in LoginOutcomes : user_login_returns(f, outcome)
        \/ \E e \in 1..Len(entries) : async_step_reauth(f, e)
        \/ \E password \in Passwords : async_step_reauth_confirm_submit(f, password)
        \/ \E outcome \in LoginOutcomes : reauth_login_returns(f, outcome)
        \/ async_reload_returns(f)

\* ------------------------------------------------------------------------
\* member.py: the Member object over the account data of the vendor
\* ------------------------------------------------------------------------

\* JSON values of the account data: an int, a string or null.
RawInt(n) == [t |-> "int", n |-> n, s |-> ""]

RawStr(str) == [t |-> "str", n |-> 0, s |-> str]

RawNone == [t |-> "none", n |-> 0, s |-> ""]

\* const.py UnitTypes: value -> name.
UnitTypes ==
    [n \in 1..6 |->
        CASE n = 1 -> "CUPS"
          [] n = 2 -> "OUNCES"
          [] n = 3 -> "GRAMS"
          [] n = 4 -> "MILLILITERS"
          [] n = 5 -> "KILOGRAMS"
          [] n = 6 -> "POUNDS"]

\* const.py Gender: value -> name.
Gender ==
    [n \in 0..2 |->
        CASE n = 0 -> "NONE"
          [] n = 1 -> "MALE"
          [] n = 2 -> "FEMALE"]

DEFAULT_WEIGHT == 6

DEFAULT_FEED == 1

DEFAULT_WATER == 2

\* CommonAPIKeys read by the unit and gender properties.
MemberKeys == {"gender", "feedUnitType", "waterUnitType", "weightUnitType"}

\* enum_cls(raw): the name of the member whose value is raw, or the
\* ValueError the lookup raises for any other value.
enum_lookup(enum_cls, raw) ==
    IF raw.t = "int" /\ raw.n \in DOMAIN enum_cls
    THEN [raised |-> FALSE, value |-> enum_cls[raw.n]]
    ELSE [raised |-> TRUE, value |-> "ValueError"]

\* _get_unit_type without the handler of ValueError.
get_unit_type_no_except(data, key, default) ==
    enum_lookup(UnitTypes, IF key \in DOMAIN data THEN data[key] ELSE RawInt(default))

\* Member._get_unit_type: the name of a UnitTypes member.
get_unit_type(data, key, default) ==
    LET raw_value == IF key \in DOMAIN data THEN data[key] ELSE RawInt(default)
        found == enum_lookup(UnitTypes, raw_value)
    IN  IF found.raised
        THEN [raised |-> FALSE, value |-> UnitTypes[default]]
        ELSE found

\* The unit properties: _get_unit_type(...).lower().
unit_property(data, key, default) ==
    LET name == get_unit_type(data, key, default)
    IN  IF name.raised THEN name
        ELSE [raised |-> FALSE, value |-> LowerTable[name.value]]

\* Member.gender: Gender(...).name.lower(), str(Gender.NONE).lower() on
\* ValueError.
gender_property(data) ==
    LET found == enum_lookup(Gender, IF "gender" \in DOMAIN data
                                     THEN data["gender"] ELSE RawInt(0))
    IN  IF found.raised
        THEN [raised |-> FALSE, value |-> LowerTable[Gender[0]]]
        ELSE [raised |-> FALSE, value |-> LowerTable[found.value]]

\* The four properties of a Member over `data`.
member_properties(data) ==
    [gender |-> gender_property(data),
     feedUnitType |-> unit_property(data, "feedUnitType", DEFAULT_FEED),
     waterUnitType |-> unit_property(data, "waterUnitType", DEFAULT_WATER),
     weightUnitType |-> unit_property(data, "weightUnitType", DEFAULT_WEIGHT)]

\* dict.update replacing the dict by the new one.
dict_update_replacing(d, new) == new

\* dict.update: the keys of `new` take its values, the others keep theirs.
dict_update(d, new) ==
    [k \in DOMAIN d \cup DOMAIN new |-> IF k \in DOMAIN new THEN new[k] ELSE d[k]]

\* Stored values of a unit key, and of the gender key.
RawUnits == {RawInt(1), RawInt(3), RawInt(6), RawInt(0), RawInt(7), RawStr("3"), RawNone}

RawGenders == {RawInt(0), RawInt(1), RawInt(2), RawInt(5), RawNone}

\* The dicts over MemberKeys with the given values, keys may be missing.
MemberData ==
    UNION {[K -> RawUnits \cup RawGenders] : K \in SUBSET MemberKeys}

AccountData ==
    {d \in MemberData :
        /\ "gender" \in DOMAIN d => d["gender"] \in RawGenders
        /\ \A k \in DOMAIN d \ {"gender"} : d[k] \in RawUnits}

NoRaw == [k \in {} |-> RawNone]

\* What api.member_info returns in the model: full, partial and empty
\* dicts, and a value that is no dict.
MemberResponses ==
    {[gender |-> RawInt(2), feedUnitType |-> RawInt(3),
      waterUnitType |-> RawInt(1), weightUnitType |-> RawInt(6)],
     [k \in {"feedUnitType"} |-> RawInt(1)],
     [gender |-> RawNone, weightUnitType |-> RawStr("3")],
     NoRaw}

NoView == [k \in {} |-> [raised |-> FALSE, value |-> ""]]

MemberInit ==
    /\ mem \in {[pc |-> "ready", data |-> d, poll |-> NoRaw, view |-> NoView] :
                    d \in AccountData}

MemberIdle == mem = [pc |-> "absent", data |-> NoRaw, poll |-> NoRaw, view |-> NoView]

\* Member.refresh: member_info returns new_data (a dict when is_dict), and
\* update_data merges it, or raises TypeError for a value that is no dict.
Member_refresh(new_data, is_dict) ==
    /\ mem.pc # "absent"
    /\ IF is_dict
       THEN mem' = [mem EXCEPT !.pc = "refreshed",
                               !.data = dict_update(mem.data, new_data),
                               !.poll = new_data,
                               !.view = NoView]
       ELSE mem' = [mem EXCEPT !.pc = "raised", !.view = NoView]
    /\ UNCHANGED <<options_vars, config_vars, collect_call, dev, sel, fnt, num, ment>>

\* The properties gender, feedUnitType, waterUnitType, weightUnitType read.
Member_read ==
    /\ mem.pc # "absent"
    /\ mem.view = NoView
    /\ mem' = [mem EXCEPT !.view = member_properties(mem.data)]
    /\ UNCHANGED <<options_vars, config_vars, collect_call, dev, sel, fnt, num, ment>>

MemberNext ==
    \/ \E new_data \in MemberResponses : Member_refresh(new_data, TRUE)
    \/ Member_refresh(NoRaw, FALSE)
    \/ Member_read

\* ------------------------------------------------------------------------
\* devices: GranarySmartCameraFeeder, DockstreamSmartRFIDFountain and
\* LumaSmartLitterBox over the base class Device
\* ------------------------------------------------------------------------

DeviceKinds == {"feeder", "fountain", "litterbox"}

\* The awaited steps of refresh, in the order of the code: the refresh of
\* the base class, then the fetches of the subclass.
Fetches(kind) ==
    CASE kind = "feeder" ->
            <<"Device.refresh", "device_grain_status", "device_real_info",
              "device_attribute_settings", "get_device_upgrade",
              "device_feeding_plan_today_new">>
      [] kind = "fountain" -> <<"Device.refresh", "device_real_info">>
      [] kind = "litterbox" ->
            <<"Device.refresh", "device_real_info", "device_data_real_info",
              "device_attribute_settings", "get_device_upgrade">>

\* The key of _data each step fills; "base" stands for the fields the
\* refresh of the base class stores.
FetchKeys(kind) ==
    CASE kind = "feeder" ->
            <<"base", "grainStatus", "realInfo", "getAttributeSetting",
              "getUpgrade", "getfeedingplantoday">>
      [] kind = "fountain" -> <<"base", "realInfo">>
      [] kind = "litterbox" ->
            <<"base", "realInfo", "dataRealInfo", "getAttributeSetting", "getUpgrade">>

\* The keys the refresh of the subclass passes to update_data.
DeviceSpecificKeys(kind) == {FetchKeys(kind)[i] : i \in 2..Len(FetchKeys(kind))}

\* refresh catching nothing.
refresh_catches_nothing(kind) == FALSE

\* Whether refresh wraps its body in "except PetLibroAPIError".
refresh_catches(kind) == kind \in {"feeder", "litterbox"}

\* The methods that make one call on a control endpoint of the API.
ControlMethods(kind) ==
    CASE kind = "feeder" ->
            {"set_feeding_plan", "set_child_lock", "set_light_enable",
             "set_light_switch", "set_sound_enable", "set_sound_switch",
             "set_manual_feed", "set_light_on", "set_light_off"}
      [] kind = "fountain" ->
            {"set_light_switch", "set_sound_switch", "set_water_dispensing_mode",
             "set_water_interval", "set_water_dispensing_duration",
             "set_cleaning_cycle", "set_filter_cycle", "set_cleaning_reset",
             "set_filter_reset"}
      [] kind = "litterbox" ->
            {"set_filter_reset", "set_cleaning_reset", "set_light_on",
             "set_light_off", "set_sound_on", "set_sound_off"}

\* Whether the method wraps its body in "except aiohttp.ClientError" and
\* raises PetLibroAPIError from it.
wraps_client_error(kind, method) ==
    \/ kind = "feeder"
    \/ kind = "fountain" /\ method \notin {"set_light_switch", "set_sound_switch"}

\* What a fetched response holds: the telemetry served during operation op,
\* or None.  Old is what an earlier poll left, EmptyResp the dict {}.
Resp(op) == [v |-> "data", op |-> op]

NoneResp == [v |-> "None", op |-> 0]

EmptyResp == [v |-> "{}", op |-> 0]

Old == Resp(0)

\* "response or {}" keeping the response.
or_empty_keeps_none(response) == response

\* response or {}
or_empty(response) == IF response = NoneResp THEN EmptyResp ELSE response

\* Numbers: whole numbers and NaN; NoNumber is the None of the attribute.
Num(n) == [t |-> "num", n |-> n]

NaN == [t |-> "nan", n |-> 0]

NoNumber == [t |-> "none", n |-> 0]

\* a < b on numbers: false when either is NaN.
num_lt(a, b) == a.t = "num" /\ b.t = "num" /\ a.n < b.n

\* min(a, b) and max(a, b) of Python: the first argument unless the second
\* is smaller (greater).
py_min(a, b) == IF num_lt(b, a) THEN b ELSE a

py_max(a, b) == IF num_lt(a, b) THEN b ELSE a

\* set_manual_feed_quantity storing the value as given.
clamp_quantity_unclamped(value) == value

\* max(1, min(value, 12)) of set_manual_feed_quantity.
clamp_quantity(value) == py_max(Num(1), py_min(value, Num(12)))

\* The getter manual_feed_quantity: None becomes the default 1, which the
\* getter also stores.
manual_feed_quantity(quantity) == IF quantity = NoNumber THEN Num(1) ELSE quantity

\* The values set_manual_feed_quantity is called with.
QuantityValues == {Num(-3), Num(0), Num(2), Num(12), Num(13), Num(40), NaN}

\* What an awaited API call does: returns (a response, or None), or raises.
ControlOutcomes == {"ok", "ClientError", "PetLibroAPIError"}

FetchOutcomes == {"ok", "none", "ClientError", "PetLibroAPIError"}

\* No operation in progress.
NoOp ==
    [name |-> "", type |-> "none", pc |-> "idle", step |-> 0, fetched |-> <<>>,
     trace |-> <<>>, result |-> "", sent |-> NoNumber]

\* An operation that has made no call yet.
StartOp(type, name) == [NoOp EXCEPT !.name = name, !.type = type, !.pc = "control"]

\* The _data of a device that was never refreshed, and of one that was.
DeviceData(kind) ==
    {[k \in {"base"} |-> Old],
     [k \in {"base"} \cup DeviceSpecificKeys(kind) |-> Old]}

DeviceInit ==
    dev \in UNION {{[kind |-> kind, data |-> d, before |-> d, quantity |-> NoNumber,
                     ops |-> 0, op |-> NoOp] : d \in DeviceData(kind)} :
                        kind \in DeviceKinds}

DeviceIdle ==
    dev = [kind |-> "none", data |-> [k \in {} |-> Old], before |-> [k \in {} |-> Old],
           quantity |-> NoNumber, ops |-> 0, op |-> NoOp]

\* An operation may start: the device exists and awaits nothing.
CanStart ==
    /\ dev.kind # "none"
    /\ dev.op.pc \in {"idle", "done"}
    /\ dev.ops < MaxOps

\* refresh entered: the refresh of the base class is awaited first.
begin_refresh(kind, op) ==
    [op EXCEPT !.pc = "refresh", !.step = 1,
               !.trace = Append(op.trace, <<"call", Fetches(kind)[1]>>)]

\* The exception that leaves the method for exception exc raised in it.
raised_as(kind, op, exc) ==
    IF exc = "ClientError" /\ op.type = "control" /\ wraps_client_error(kind, op.name)
    THEN "PetLibroAPIError"
    ELSE exc

\* A control method that refreshes whatever its control call did.
control_done_always_refreshes(kind, op, outcome) ==
    begin_refresh(kind, [op EXCEPT !.trace = Append(op.trace, <<"raise", op.name>>)])

\* A control method after its control call: "await self.refresh()" when the
\* call returned, else the exception that leaves the method.
control_done(kind, op, outcome) ==
    IF outcome = "ok"
    THEN begin_refresh(kind, [op EXCEPT !.trace = Append(op.trace, <<"return", op.name>>)])
    ELSE [op EXCEPT !.pc = "done",
                    !.trace = Append(op.trace, <<"raise", op.name>>),
                    !.result = raised_as(kind, op, outcome)]

\* The dict the refresh of the subclass passes to update_data.
fetched_data(kind, fetched) ==
    [k \in DeviceSpecificKeys(kind) |->
        or_empty(fetched[CHOOSE i \in 2..Len(FetchKeys(kind)) : FetchKeys(kind)[i] = k])]

\* Device.refresh of the base class: it stores what it fetched in fields of
\* its own, which "base" stands for.
Device_base_refresh(data, response) == dict_update(data, [k \in {"base"} |-> response])

\* Device.update_data: the dict given is merged into _data.
Device_update_data(data, new) == dict_update(data, new)

\* One awaited step of refresh ends in operation n: [data, op] after it.
fetch_done(kind, data, op, n, outcome) ==
    LET i == op.step
        name == Fetches(kind)[i]
        response == IF outcome = "ok" THEN Resp(n) ELSE NoneResp
        fetched == Append(op.fetched, response)
        data1 == IF i = 1 THEN Device_base_refresh(data, response) ELSE data
    IN  IF outcome \in {"ok", "none"}
        THEN IF i = Len(Fetches(kind))
             THEN [data |-> Device_update_data(data1, fetched_data(kind, fetched)),
                   op |-> [op EXCEPT !.pc = "done", !.fetched = fetched,
                                     !.result = "returned",
                                     !.trace = op.trace \o <<<<"return", name>>,
                                                              <<"update_data", "">>>>]]
             ELSE [data |-> data1,
                   op |-> [op EXCEPT !.step = i + 1, !.fetched = fetched,
                                     !.trace = op.trace \o
                                        <<<<"return", name>>,
                                          <<"call", Fetches(kind)[i + 1]>>>>]]
        ELSE IF outcome = "PetLibroAPIError" /\ refresh_catches(kind)
        THEN [data |-> data,
              op |-> [op EXCEPT !.pc = "done", !.result = "returned",
                                !.trace = op.trace \o <<<<"raise", name>>,
                                                         <<"log_error", "">>>>]]
        ELSE [data |-> data,
              op |-> [op EXCEPT !.pc = "done", !.result = raised_as(kind, op, outcome),
                                !.trace = Append(op.trace, <<"raise", name>>)]]

\* Device.refresh called by the coordinator: a poll.
Device_refresh ==
    /\ CanStart
    /\ dev' = [dev EXCEPT !.ops = @ + 1, !.before = dev.data,
                          !.op = begin_refresh(dev.kind, StartOp("poll", "refresh"))]
    /\ UNCHANGED <<options_vars, config_vars, collect_call, mem, sel, fnt, num, ment>>

\* A control method up to the control call it awaits; set_manual_feed reads
\* the quantity it sends through the getter.
Device_control(method) ==
    /\ CanStart
    /\ method \in ControlMethods(dev.kind)
    /\ LET feeds == method = "set_manual_feed"
           quantity == manual_feed_quantity(dev.quantity)
       IN  dev' = [dev EXCEPT
                !.ops = @ + 1, !.before = dev.data,
                !.quantity = IF feeds THEN quantity ELSE @,
                !.op = [StartOp("control", method) EXCEPT
                            !.trace = <<<<"call", method>>>>,
                            !.sent = IF feeds THEN quantity ELSE NoNumber]]
    /\ UNCHANGED <<options_vars, config_vars, collect_call, mem, sel, fnt, num, ment>>

\* set_manual_feed_quantity up to the refresh it awaits.
Device_set_manual_feed_quantity(value) ==
    /\ CanStart
    /\ dev.kind = "feeder"
    /\ dev' = [dev EXCEPT
            !.ops = @ + 1, !.before = dev.data,
            !.quantity = clamp_quantity(value),
            !.op = begin_refresh(dev.kind, StartOp("quantity", "set_manual_feed_quantity"))]
    /\ UNCHANGED <<options_vars, config_vars, collect_call, mem, sel, fnt, num, ment>>

\* The control call returns or raises.
Device_control_returns(outcome) ==
    /\ dev.op.pc = "control"
    /\ dev' = [dev EXCEPT !.op = control_done(dev.kind, dev.op, outcome)]
    /\ UNCHANGED <<options_vars, config_vars, collect_call, mem, sel, fnt, num, ment>>

\* How many of the responses fetched so far were None.
Missing(fetched) == Cardinality({i \in 1..Len(fetched) : fetched[i] = NoneResp})

\* The awaited step of refresh returns or raises; the refresh of the base
\* class returns nothing to the subclass.
Device_fetch_returns(outcome) ==
    /\ dev.op.pc = "refresh"
    /\ outcome = "none" => (dev.op.step > 1 /\ Missing(dev.op.fetched) < MaxMissing)
    /\ LET after == fetch_done(dev.kind, dev.data, dev.op, dev.ops, outcome)
       IN  dev' = [dev EXCEPT !.data = after.data, !.op = after.op]
    /\ UNCHANGED <<options_vars, config_vars, collect_call, mem, sel, fnt, num, ment>>

DeviceNext ==
    \/ Device_refresh
    \/ \E method \in UNION {ControlMethods(k) : k \in DeviceKinds} : Device_control(method)
    \/ \E value \in QuantityValues : Device_set_manual_feed_quantity(value)
    \/ \E outcome \in ControlOutcomes : Device_control_returns(outcome)
    \/ \E outcome \in FetchOutcomes : Device_fetch_returns(outcome)

\* ------------------------------------------------------------------------
\* select.py: the water dispensing mode select of the RFID fountain
\* ------------------------------------------------------------------------

\* options_list of the entity description (select.py:212).
SelectOptions == {"Flowing Water (Constant)", "Intermittent Water (Scheduled)"}

\* What async_select_option is called with: the options, and a label that
\* is none of them.
SelectInputs == SelectOptions \cup {"Off"}

\* realInfo.useWaterType as the device reports it.
WaterTypes == 0..2

\* DockstreamSmartRFIDFountain.water_dispensing_mode over the cached
\* useWaterType.
water_dispensing_mode(api_value) ==
    CASE api_value = 0 -> "Flowing Water (Constant)"
      [] api_value = 1 -> "Intermittent Water (Scheduled)"
      [] OTHER -> "Unknown"

\* The endpoint the method of the entity description calls for an option.
select_method(option) ==
    IF option = "Intermittent Water (Scheduled)"
    THEN "set_water_mode_intermittent"
    ELSE "set_water_mode_constant"

\* PetLibroSelectEntity.current_option: _attr_current_option when it is one
\* of the options, else the current_selection of the description when that
\* is one of the options, else None.
current_option(attr_current_option, api_value) ==
    IF attr_current_option \in SelectOptions
    THEN attr_current_option
    ELSE LET state == water_dispensing_mode(api_value)
         IN  IF state \in SelectOptions THEN state ELSE "None"

\* What async_select_option meets: the API call raises, or it returns and
\* the refresh raises, or both return.
SelectOutcomes == {"api_raises", "refresh_raises", "ok"}

SelectInit ==
    sel \in {[pc |-> "ready", attr_current_option |-> "None", useWaterType |-> v,
              api_calls |-> <<>>, log |-> <<>>] : v \in WaterTypes}

\* The coordinator's poll stores the useWaterType the device reports.
Select_poll(reported) ==
    /\ sel.pc = "ready"
    /\ Len(sel.log) < MaxSelectEvents
    /\ sel' = [sel EXCEPT !.useWaterType = reported,
                          !.log = Append(@, [e |-> "poll", option |-> "",
                                             reported |-> reported])]
    /\ UNCHANGED <<options_vars, config_vars, collect_call, mem, dev, fnt, num, ment>>

\* async_select_option: the method calls the API and refreshes the device;
\* when neither raised and the option is one of the options, the option is
\* kept in _attr_current_option.  Any exception is logged and swallowed.
Select_async_select_option(option, outcome, reported) ==
    /\ sel.pc = "ready"
    /\ Len(sel.log) < MaxSelectEvents
    /\ outcome # "ok" => reported = sel.useWaterType
    /\ sel' = [sel EXCEPT
            !.api_calls = Append(@, select_method(option)),
            !.useWaterType = IF outcome = "ok" THEN reported ELSE @,
            !.attr_current_option =
                IF outcome = "ok" /\ option \in SelectOptions THEN option ELSE @,
            !.log = Append(@, [e |-> outcome, option |-> option,
                               reported |-> reported])]
    /\ UNCHANGED <<options_vars, config_vars, collect_call, mem, dev, fnt, num, ment>>

SelectNext ==
    \/ \E reported \in WaterTypes : Select_poll(reported)
    \/ \E option \in SelectInputs, outcome \in SelectOutcomes, reported \in WaterTypes :
            Select_async_select_option(option, outcome, reported)

\* No select entity.
SelectIdle == sel = [pc |-> "absent"]

\* ------------------------------------------------------------------------
\* The water schedule of the RFID fountain: the select entity (select.py)
\* and set_water_interval / set_water_dispensing_duration of the device,
\* as calls that interleave at their awaits
\* ------------------------------------------------------------------------

\* realInfo keys of the schedule.
ScheduleKeys == {"useWaterType", "useWaterInterval", "useWaterDuration"}

\* The schedules the vendor holds at the start.
VendorSchedules ==
    {[useWaterType |-> Num(m), useWaterInterval |-> Num(1), useWaterDuration |-> Num(2)] :
        m \in {0, 1}}

\* What device_real_info answers with: the schedule, the keys with null
\* values, or nothing.
ReportShapes == {"full", "nulls", "empty"}

\* An argument a command does not have.
NoArg == [t |-> "noarg", n |-> 0]

\* The real_info a fetch returns for the schedule the vendor holds; the
\* refresh stores "real_info or {}".
real_info(vendor, shape) ==
    CASE shape = "full" -> vendor
      [] shape = "nulls" -> [k \in ScheduleKeys |-> NoNumber]
      [] OTHER -> [k \in {} |-> NoNumber]

\* self._data.get("realInfo", {}).get(key, 0)
real_info_get(realInfo, key) == IF key \in DOMAIN realInfo THEN realInfo[key] ELSE Num(0)

\* int(x or 0) over None and whole numbers.
int_or_zero(x) == IF x = NoNumber \/ x = Num(0) THEN Num(0) ELSE x

\* _current_schedule answering 0, 0 whatever the cache holds.
current_schedule_zero(realInfo) == [interval |-> Num(0), duration |-> Num(0)]

\* _current_schedule: interval and duration from the device cache.
current_schedule(realInfo) ==
    [interval |-> int_or_zero(real_info_get(realInfo, "useWaterInterval")),
     duration |-> int_or_zero(real_info_get(realInfo, "useWaterDuration"))]

\* The API call the method of the select description builds for an option.
select_command(option, realInfo) ==
    [name |-> select_method(option), mode |-> NoArg,
     interval |-> current_schedule(realInfo).interval,
     duration |-> current_schedule(realInfo).duration]

\* set_water_interval sending zeros for the mode and the duration.
set_water_interval_command_zero(value, realInfo) ==
    [name |-> "set_water_interval", mode |-> Num(0), interval |-> value,
     duration |-> Num(0)]

\* api.set_water_interval(serial, value, current_mode, current_duration)
set_water_interval_command(value, realInfo) ==
    [name |-> "set_water_interval",
     mode |-> real_info_get(realInfo, "useWaterType"),
     interval |-> value,
     duration |-> real_info_get(realInfo, "useWaterDuration")]

\* api.set_water_dispensing_duration(serial, value, current_mode, current_interval)
set_water_dispensing_duration_command(value, realInfo) ==
    [name |-> "set_water_dispensing_duration",
     mode |-> real_info_get(realInfo, "useWaterType"),
     interval |-> real_info_get(realInfo, "useWaterInterval"),
     duration |-> value]

NoCommand == [name |-> "", mode |-> NoArg, interval |-> NoArg, duration |-> NoArg]

\* The schedule the vendor holds after a command: the command's mode,
\* interval and duration replace the vendor's; a null leaves the value.
vendor_apply(vendor, cmd) ==
    LET keep(new, old) == IF new.t = "num" THEN new ELSE old
    IN  [useWaterType |->
            CASE cmd.name = "set_water_mode_intermittent" -> Num(1)
              [] cmd.name = "set_water_mode_constant" -> Num(0)
              [] OTHER -> keep(cmd.mode, vendor["useWaterType"]),
         useWaterInterval |-> keep(cmd.interval, vendor["useWaterInterval"]),
         useWaterDuration |-> keep(cmd.duration, vendor["useWaterDuration"])]

\* The values the number entities set.
IntervalValues == {Num(3)}

DurationValues == {Num(4)}

\* What an awaited call of the fountain may raise.
FountainErrors == {"ClientError", "PetLibroAPIError"}

\* A call of the fountain: which method, its argument, the calls in progress
\* when it was made, where it waits, the command it sent, the real_info its
\* refresh was served, what it did in order, and how it ended.
NewCall(kind, option, value, cmd, overlaps) ==
    [kind |-> kind, option |-> option, value |-> value, overlaps |-> overlaps,
     pc |-> IF kind = "refresh" THEN "refresh" ELSE "command",
     cmd |-> cmd, report |-> [k \in {} |-> NoNumber],
     trace |-> IF kind = "refresh" THEN <<<<"call", "refresh">>>>
               ELSE <<<<"call", cmd.name>>>>,
     result |-> ""]

\* current_option exposing whatever the callback returned.
current_option_unfiltered(attr_current_option, realInfo, raises) ==
    LET api_value == real_info_get(realInfo, "useWaterType")
    IN  IF api_value.t = "num" THEN water_dispensing_mode(api_value.n) ELSE "Unknown"

\* PetLibroSelectEntity.current_option over the device cache; `raises` is a
\* current_selection callback that raises.
current_option_read(attr_current_option, realInfo, raises) ==
    LET api_value == real_info_get(realInfo, "useWaterType")
        state == IF api_value.t = "num" THEN water_dispensing_mode(api_value.n)
                 ELSE "Unknown"
    IN  IF attr_current_option \in SelectOptions THEN attr_current_option
        ELSE IF raises THEN "None"
        ELSE IF state \in SelectOptions THEN state
        ELSE "None"

\* The fountains at the start: the cache holds a report of the schedule, or
\* nothing, or nulls.
FountainInit ==
    fnt \in {[pc |-> "ready", vendor |-> v, realInfo |-> real_info(v, shape),
              attr_current_option |-> "None", writes |-> 0, calls |-> <<>>,
              commands |-> <<>>, view |-> "unread"] :
                v \in VendorSchedules, shape \in ReportShapes}

\* A method of the fountain or of its select entity may be called; it runs
\* up to the API call it awaits.
CanCall == fnt.pc = "ready" /\ Len(fnt.calls) < MaxCalls

\* The calls that have not ended.
InProgress(f) == {i \in 1..Len(f.calls) : f.calls[i].pc # "done"}

\* async_select_option(option) up to the awaited API call of
\* _apply_and_refresh: the schedule is read from the cache first.
Fountain_async_select_option(option) ==
    /\ CanCall
    /\ fnt' = [fnt EXCEPT !.calls = Append(@,
                    NewCall("select", option, NoArg,
                            select_command(option, fnt.realInfo), InProgress(fnt)))]
    /\ UNCHANGED <<options_vars, config_vars, collect_call, mem, dev, sel, num, ment>>

\* set_water_interval(value) up to the awaited API call.
Fountain_set_water_interval(value) ==
    /\ CanCall
    /\ fnt' = [fnt EXCEPT !.calls = Append(@,
                    NewCall("set_water_interval", "", value,
                            set_water_interval_command(value, fnt.realInfo),
                            InProgress(fnt)))]
    /\ UNCHANGED <<options_vars, config_vars, collect_call, mem, dev, sel, num, ment>>

\* set_water_dispensing_duration(value) up to the awaited API call.
Fountain_set_water_dispensing_duration(value) ==
    /\ CanCall
    /\ fnt' = [fnt EXCEPT !.calls = Append(@,
                    NewCall("set_water_dispensing_duration", "", value,
                            set_water_dispensing_duration_command(value, fnt.realInfo),
                            InProgress(fnt)))]
    /\ UNCHANGED <<options_vars, config_vars, collect_call, mem, dev, sel, num, ment>>

\* The coordinator's poll: refresh of the fountain.
Fountain_refresh ==
    /\ CanCall
    /\ fnt' = [fnt EXCEPT !.calls = Append(@, NewCall("refresh", "", NoArg, NoCommand,
                                                       InProgress(fnt)))]
    /\ UNCHANGED <<options_vars, config_vars, collect_call, mem, dev, sel, num, ment>>

\* The end of a call whose command and refresh returned: async_select_option
\* keeps a valid option in _attr_current_option and writes the state; the
\* other methods return.
finished(f, c) ==
    LET call == f.calls[c]
    IN  IF call.kind = "select" /\ call.option \in SelectOptions
        THEN [f EXCEPT !.attr_current_option = call.option,
                       !.writes = @ + 1,
                       !.calls[c].pc = "done",
                       !.calls[c].result = "returned",
                       !.calls[c].trace = Append(@, <<"write_state", "">>)]
        ELSE [f EXCEPT !.calls[c].pc = "done", !.calls[c].result = "returned"]

\* async_select_option letting the exception of its method through.
raised_unhandled(f, c, exc) ==
    [f EXCEPT !.calls[c].pc = "done", !.calls[c].result = exc]

\* The end of a call in which an awaited call raised exc: async_select_option
\* logs it and returns; the two schedule methods raise PetLibroAPIError for
\* aiohttp.ClientError; refresh lets it through.
raised(f, c, exc) ==
    LET call == f.calls[c]
    IN  CASE call.kind = "select" ->
                [f EXCEPT !.calls[c].pc = "done",
                          !.calls[c].result = "returned",
                          !.calls[c].trace = Append(@, <<"log_error", "">>)]
          [] call.kind \in {"set_water_interval", "set_water_dispensing_duration"} ->
                [f EXCEPT !.calls[c].pc = "done",
                          !.calls[c].result = IF exc = "ClientError"
                                              THEN "PetLibroAPIError" ELSE exc]
          [] OTHER ->
                [f EXCEPT !.calls[c].pc = "done", !.calls[c].result = exc]

\* The awaited API call of call c ends: the vendor has applied the command
\* and the method goes on to the refresh, or the call raised.
command_returned(f, c, outcome) ==
    IF outcome = "ok"
    THEN [f EXCEPT !.vendor = vendor_apply(@, f.calls[c].cmd),
                   !.commands = Append(@, f.calls[c].cmd),
                   !.calls[c].pc = "refresh",
                   !.calls[c].trace = @ \o <<<<"return", f.calls[c].cmd.name>>,
                                             <<"call", "refresh">>>>]
    ELSE raised([f EXCEPT !.calls[c].trace =
                            Append(@, <<"raise", f.calls[c].cmd.name>>)],
                c, outcome)

Fountain_command_returns(c, outcome) ==
    /\ fnt.pc = "ready"
    /\ c \in 1..Len(fnt.calls)
    /\ fnt.calls[c].pc = "command"
    /\ fnt' = command_returned(fnt, c, outcome)
    /\ UNCHANGED <<options_vars, config_vars, collect_call, mem, dev, sel, num, ment>>

\* The vendor answers the device_real_info of the refresh of call c with
\* the schedule it holds now.
Fountain_real_info_served(c, shape) ==
    /\ fnt.pc = "ready"
    /\ c \in 1..Len(fnt.calls)
    /\ fnt.calls[c].pc = "refresh"
    /\ fnt' = [fnt EXCEPT !.calls[c].pc = "served",
                          !.calls[c].report = real_info(fnt.vendor, shape)]
    /\ UNCHANGED <<options_vars, config_vars, collect_call, mem, dev, sel, num, ment>>

\* The refresh of call c returns: update_data stores the real_info, and the
\* method ends.
Fountain_refresh_returns(c) ==
    /\ fnt.pc = "ready"
    /\ c \in 1..Len(fnt.calls)
    /\ fnt.calls[c].pc = "served"
    /\ fnt' = finished([fnt EXCEPT !.realInfo = fnt.calls[c].report,
                                   !.calls[c].trace = @ \o <<<<"return", "refresh">>>>],
                       c)
    /\ UNCHANGED <<options_vars, config_vars, collect_call, mem, dev, sel, num, ment>>

\* An awaited call of the refresh of call c raises: the fountain's refresh
\* catches nothing and stores nothing.
Fountain_refresh_raises(c, exc) ==
    /\ fnt.pc = "ready"
    /\ c \in 1..Len(fnt.calls)
    /\ fnt.calls[c].pc = "refresh"
    /\ fnt' = raised([fnt EXCEPT !.calls[c].trace = Append(@, <<"raise", "refresh">>)],
                     c, exc)
    /\ UNCHANGED <<options_vars, config_vars, collect_call, mem, dev, sel, num, ment>>

\* current_option is read.
Fountain_current_option(raises) ==
    /\ fnt.pc = "ready"
    /\ fnt' = [fnt EXCEPT !.view =
                    current_option_read(fnt.attr_current_option, fnt.realInfo, raises)]
    /\ UNCHANGED <<options_vars, config_vars, collect_call, mem, dev, sel, num, ment>>

FountainNext ==
    \/ \E option \in SelectInputs : Fountain_async_select_option(option)
    \/ \E value \in IntervalValues : Fountain_set_water_interval(value)
    \/ \E value \in DurationValues : Fountain_set_water_dispensing_duration(value)
    \/ Fountain_refresh
    \/ \E c \in 1..MaxCalls, outcome \in {"ok"} \cup FountainErrors :
            Fountain_command_returns(c, outcome)
    \/ \E c \in 1..MaxCalls, shape \in ReportShapes : Fountain_real_info_served(c, shape)
    \/ \E c \in 1..MaxCalls : Fountain_refresh_returns(c)
    \/ \E c \in 1..MaxCalls, exc \in FountainErrors : Fountain_refresh_raises(c, exc)
    \/ \E raises \in BOOLEAN : Fountain_current_option(raises)

\* ------------------------------------------------------------------------
\* The number entities' handling of a coordinator update (number.py)
\* ------------------------------------------------------------------------

\* petlibro_unit of a description: APIKey.FEED_UNIT for the manual-feed
\* numbers, APIKey.WATER_UNIT for the water thresholds, None otherwise.
PetlibroUnits == {"feedUnitType", "waterUnitType", "None"}

\* Unit members a member's feedUnitType can be.
FeedUnits == {"CUPS", "OUNCES", "GRAMS", "MILLILITERS"}

\* hub.entry.options.get(MANUAL_FEED_PORTIONS, False)
portions_enabled(n) == n.options_portions

\* enable_for_manual_feed without the portions option.
enable_for_manual_feed_by_unit(n) == n.feedUnitType # "CUPS"

\* self.member.feedUnitType is not Unit.CUPS or self.portions_enabled
enable_for_manual_feed(n) == n.feedUnitType # "CUPS" \/ portions_enabled(n)

\* A number entity of a description with the given petlibro_unit, after it
\* was added: nothing handled yet.
NumberInit ==
    \E unit \in PetlibroUnits, enabled \in BOOLEAN, feed \in FeedUnits, portions \in BOOLEAN :
        num = [pc |-> "ready",
               petlibro_unit |-> unit,
               enabled |-> enabled,
               feedUnitType |-> feed,
               options_portions |-> portions,
               handled |-> 0,
               syncs |-> 0,
               processed |-> 0]

\* _handle_coordinator_update: a manual-feed number whose enabled flag
\* differs from enable_for_manual_feed schedules the sync; the update is
\* passed on to CoordinatorEntity only when the entity is enabled.
Number_handle_coordinator_update ==
    /\ num.pc = "ready"
    /\ num.handled < MaxUpdates
    /\ LET mismatch == /\ num.petlibro_unit = "feedUnitType"
                       /\ num.enabled # enable_for_manual_feed(num)
       IN  num' = [num EXCEPT !.handled = @ + 1,
                              !.syncs = IF mismatch THEN @ + 1 ELSE @,
                              !.processed = IF num.enabled THEN @ + 1 ELSE @]
    /\ UNCHANGED <<options_vars, config_vars, collect_call, mem, dev, sel, fnt, ment>>

\* The member's feed unit changes with a refresh of the member.
Number_feed_unit_changes(feed) ==
    /\ num.pc = "ready"
    /\ feed # num.feedUnitType
    /\ num' = [num EXCEPT !.feedUnitType = feed]
    /\ UNCHANGED <<options_vars, config_vars, collect_call, mem, dev, sel, fnt, ment>>

\* The entry's option MANUAL_FEED_PORTIONS is switched.
Number_portions_option_changes ==
    /\ num.pc = "ready"
    /\ num' = [num EXCEPT !.options_portions = ~@]
    /\ UNCHANGED <<options_vars, config_vars, collect_call, mem, dev, sel, fnt, ment>>

\* The entity is enabled or disabled in the entity registry.
Number_registry_enabled_changes ==
    /\ num.pc = "ready"
    /\ num' = [num EXCEPT !.enabled = ~@]
    /\ UNCHANGED <<options_vars, config_vars, collect_call, mem, dev, sel, fnt, ment>>

NumberNext ==
    \/ Number_handle_coordinator_update
    \/ \E feed \in FeedUnits : Number_feed_unit_changes(feed)
    \/ Number_portions_option_changes
    \/ Number_registry_enabled_changes

\* ------------------------------------------------------------------------
\* MemberEntity: the sensor that shows the member (member.py)
\* ------------------------------------------------------------------------

\* The two accounts of the model: their email and their account id.
AccountIds == 1..2

AccountEmail == [a \in AccountIds |-> IF a = 1 THEN "ann@x" ELSE "bob@x"]

AccountNumber == [a \in AccountIds |-> IF a = 1 THEN 11 ELSE 22]

\* str.capitalize() of the names the properties return.
CapitalTable ==
    [s \in {"none", "male", "female", "cups", "ounces", "grams", "milliliters",
            "kilograms", "pounds"} |->
        CASE s = "none" -> "None"
          [] s = "male" -> "Male"
          [] s = "female" -> "Female"
          [] s = "cups" -> "Cups"
          [] s = "ounces" -> "Ounces"
          [] s = "grams" -> "Grams"
          [] s = "milliliters" -> "Milliliters"
          [] s = "kilograms" -> "Kilograms"
          [] s = "pounds" -> "Pounds"]

\* Member.email and Member.nickname: self._data.get(key, "")
text_property(data, key) == IF key \in DOMAIN data THEN data[key] ELSE RawStr("")

\* Member.entity_id: f"PL-{self._data.get(API.ACCOUNT_ID, API.EMAIL)}-data";
\* the default is the key API.EMAIL, whose text is "email".
entity_id(data) ==
    <<"PL-",
      IF "id" \in DOMAIN data
      THEN (IF data["id"].t = "int" THEN ToString(data["id"].n) ELSE data["id"].s)
      ELSE "email",
      "-data">>

\* Member.to_dict
to_dict(data) ==
    [email |-> text_property(data, "email"),
     nickname |-> text_property(data, "nickname"),
     gender |-> RawStr(CapitalTable[gender_property(data).value]),
     weight_unit |-> RawStr(CapitalTable[unit_property(data, "weightUnitType", DEFAULT_WEIGHT).value]),
     feed_unit |-> RawStr(CapitalTable[unit_property(data, "feedUnitType", DEFAULT_FEED).value]),
     water_unit |-> RawStr(CapitalTable[unit_property(data, "waterUnitType", DEFAULT_WATER).value])]

\* MemberEntity.data before the first async_update: {}
NoAttributes == [k \in {} |-> RawNone]

\* What the vendor returns for account a: with or without the account id.
EntityAccountData(a) ==
    {[k \in keys |->
        CASE k = "id" -> RawInt(AccountNumber[a])
          [] k = "email" -> RawStr(AccountEmail[a])
          [] k = "nickname" -> RawStr(n)] :
        keys \in {{"email", "nickname"}, {"id", "email", "nickname"}},
        n \in {"", "rex"}}

\* What a later member_info returns.
EntityResponses ==
    {[k \in {"nickname"} |-> RawStr("rex")],
     [k \in {"nickname"} |-> RawStr("")],
     [k \in {"feedUnitType"} |-> RawInt(3)]}

NoMemberEntity == [made |-> FALSE, added |-> FALSE, unique_id |-> <<>>, data |-> NoAttributes]

\* The members of the two accounts, no entity made yet.
MemberEntityInit ==
    \E d1 \in EntityAccountData(1), d2 \in EntityAccountData(2) :
        ment = [pc |-> "ready",
                members |-> [a \in AccountIds |-> IF a = 1 THEN d1 ELSE d2],
                entities |-> [a \in AccountIds |-> NoMemberEntity],
                writes |-> <<>>]

\* async_write_ha_state of the entity of account a: the state is written
\* with extra_state_attributes, dict(self.data).
write_ha_state(m, a, cause) ==
    [m EXCEPT !.writes = Append(@, [account |-> a,
                                    cause |-> cause,
                                    attributes |-> m.entities[a].data,
                                    member |-> to_dict(m.members[a])])]

\* MemberEntity.__init__
MemberEntity_init(a) ==
    /\ ment.pc = "ready"
    /\ ~ment.entities[a].made
    /\ ment' = [ment EXCEPT !.entities[a] =
                    [made |-> TRUE, added |-> FALSE,
                     unique_id |-> entity_id(ment.members[a]),
                     data |-> NoAttributes]]
    /\ UNCHANGED <<options_vars, config_vars, collect_call, mem, dev, sel, fnt, num>>

\* async_added_to_hass: the entity listens to the member's EVENT_UPDATE.
MemberEntity_async_added_to_hass(a) ==
    /\ ment.pc = "ready"
    /\ ment.entities[a].made
    /\ ~ment.entities[a].added
    /\ ment' = [ment EXCEPT !.entities[a].added = TRUE]
    /\ UNCHANGED <<options_vars, config_vars, collect_call, mem, dev, sel, fnt, num>>

\* Member.update_data: the data is merged and EVENT_UPDATE emitted; the
\* listener of an added entity is async_write_ha_state.
MemberEntity_member_update_data(a, new) ==
    /\ ment.pc = "ready"
    /\ Len(ment.writes) < MaxWrites
    /\ LET merged == [ment EXCEPT !.members[a] = dict_update(@, new)]
       IN  ment' = IF ment.entities[a].added
                   THEN write_ha_state(merged, a, "event")
                   ELSE merged
    /\ UNCHANGED <<options_vars, config_vars, collect_call, mem, dev, sel, fnt, num>>

\* The entity is polled: async_update stores member.to_dict(), then the
\* state is written.
MemberEntity_async_update(a) ==
    /\ ment.pc = "ready"
    /\ ment.entities[a].added
    /\ Len(ment.writes) < MaxWrites
    /\ ment' = write_ha_state(
                    [ment EXCEPT !.entities[a].data = to_dict(ment.members[a])],
                    a, "poll")
    /\ UNCHANGED <<options_vars, config_vars, collect_call, mem, dev, sel, fnt, num>>

MemberEntityNext ==
    \/ \E a \in AccountIds : MemberEntity_init(a)
    \/ \E a \in AccountIds : MemberEntity_async_added_to_hass(a)
    \/ \E a \in AccountIds, new \in EntityResponses : MemberEntity_member_update_data(a, new)
    \/ \E a \in AccountIds : MemberEntity_async_update(a)

\* No fountain, no number entity, no member entity.
FountainIdle == fnt = [pc |-> "absent"]

NumberIdle == num = [pc |-> "absent"]

MemberEntityIdle == ment = [pc |-> "absent"]

PlatformIdle == FountainIdle /\ NumberIdle /\ MemberEntityIdle

EntityIdle == MemberIdle /\ DeviceIdle /\ SelectIdle /\ PlatformIdle

ConfigIdle ==
    /\ entries = <<>>
    /\ flows = [f \in FlowIds |-> NoFlow]
    /\ logins = <<>>

OptionsIdle ==
    /\ has_member = FALSE
    /\ member = EmptyDict
    /\ account = EmptyDict
    /\ registry = [id \in Sensors |-> NoOptions]
    /\ options_flow = OptionsFlowStart
    /\ api_calls = <<>>

CollectIdle == collect_call = NoCollectCall

InitOptions == OptionsInit /\ ConfigIdle /\ CollectIdle /\ EntityIdle

SpecOptions == InitOptions /\ [][OptionsNext]_vars

InitSetup == ConfigInit /\ OptionsIdle /\ CollectIdle /\ EntityIdle

SpecSetup == InitSetup /\ [][ConfigNext]_vars

InitCollect == CollectInit /\ OptionsIdle /\ ConfigIdle /\ EntityIdle

SpecCollect == InitCollect /\ [][collect_updates_call]_vars

InitMember ==
    /\ OptionsIdle /\ ConfigIdle /\ CollectIdle /\ PlatformIdle
    /\ MemberInit /\ DeviceIdle /\ SelectIdle

SpecMember == InitMember /\ [][MemberNext]_vars

InitDevice ==
    /\ OptionsIdle /\ ConfigIdle /\ CollectIdle /\ PlatformIdle
    /\ MemberIdle /\ DeviceInit /\ SelectIdle

SpecDevice == InitDevice /\ [][DeviceNext]_vars

InitSelect ==
    /\ OptionsIdle /\ ConfigIdle /\ CollectIdle /\ PlatformIdle
    /\ MemberIdle /\ DeviceIdle /\ SelectInit

SpecSelect == InitSelect /\ [][SelectNext]_vars

InitFountain ==
    /\ OptionsIdle /\ ConfigIdle /\ CollectIdle
    /\ MemberIdle /\ DeviceIdle /\ SelectIdle
    /\ FountainInit /\ NumberIdle /\ MemberEntityIdle

SpecFountain == InitFountain /\ [][FountainNext]_vars

InitNumber ==
    /\ OptionsIdle /\ ConfigIdle /\ CollectIdle
    /\ MemberIdle /\ DeviceIdle /\ SelectIdle
    /\ FountainIdle /\ NumberInit /\ MemberEntityIdle

SpecNumber == InitNumber /\ [][NumberNext]_vars

InitMemberEntity ==
    /\ OptionsIdle /\ ConfigIdle /\ CollectIdle
    /\ MemberIdle /\ DeviceIdle /\ SelectIdle
    /\ FountainIdle /\ NumberIdle /\ MemberEntityInit

SpecMemberEntity == InitMemberEntity /\ [][MemberEntityNext]_vars

\* A polled object, the member or a device.
InitPolled ==
    /\ OptionsIdle /\ ConfigIdle /\ CollectIdle /\ SelectIdle /\ PlatformIdle
    /\ \/ MemberInit /\ DeviceIdle
       \/ MemberIdle /\ DeviceInit

SpecPolled == InitPolled /\ [][MemberNext \/ DeviceNext]_vars

\* ------------------------------------------------------------------------
\* Properties of the options flow (SpecOptions)
\* ------------------------------------------------------------------------

\* The flow has taken a submitted account settings form.
Submitted == options_flow.pc \in {"await_update", "await_refresh", "done"}
                /\ options_flow.reason # "account_update_nomember"

\* The nickname the form submitted; an omitted nickname is the empty one.
SubmittedNickname ==
    IF "nickname" \in DOMAIN options_flow.info_input
    THEN options_flow.info_input["nickname"].v
    ELSE ""

\* The enum member the form named for gender or for a unit type.
SubmittedMember(k) ==
    UpperTable[(IF k = "gender" THEN options_flow.info_input[k]
                ELSE options_flow.unit_input[k]).v]

\* The submitted value of field k differs from the member's value at the
\* time of the submission.
FieldChanged(k) ==
    IF k = "nickname"
    THEN SubmittedNickname # options_flow.member_before[k].v
    ELSE SubmittedMember(k) # options_flow.member_before[k].v

ChangedFields == {k \in MemberAttrs : FieldChanged(k)}

CallsOf(op) == {i \in 1..Len(api_calls) : api_calls[i].op = op}

ExpectedInfo ==
    [k \in ChangedFields \cap InfoFields |->
        IF k = "nickname" THEN PyStr(SubmittedNickname)
        ELSE PyEnum("Gender", SubmittedMember(k))]

ExpectedSetting ==
    [k \in ChangedFields \cap UnitFields |-> PyEnum("Unit", SubmittedMember(k))]

ShowsUnit(id, u) ==
    /\ registry[id].unit_of_measurement = symbol(u)
    /\ registry[id].display_precision =
        (IF u \in DOMAIN ROUNDING_RULES THEN ROUNDING_RULES[u] ELSE 0)
    /\ registry[id].suggested_display_precision = registry[id].display_precision

\* The sensors of the hub under a unit type and a device class.
SensorsOf(ut, dc) == {id \in Sensors : id[1] = ut /\ id[2] = dc}

\* C4: on a unit change with update_all_units false, for every unit type
\* whose value changed and whose new unit has a device class, every sensor
\* registered under that unit type and that device class has its registry
\* options set to the new unit's symbol, with display_precision and
\* suggested_display_precision equal to the unit's ROUNDING_RULES entry
\* (0 without an entry).
C4_ChangedUnitCascades ==
    (Submitted /\ ~options_flow.update_all_units) =>
        \A ut \in ChangedFields \cap UnitFields :
            device_class(SubmittedMember(ut)) # "none" =>
                \A id \in SensorsOf(ut, device_class(SubmittedMember(ut))) :
                    ShowsUnit(id, SubmittedMember(ut))

C4_Witness ==
    /\ Submitted /\ ~options_flow.update_all_units
    /\ options_flow.pc = "done"
    /\ "feedUnitType" \in ChangedFields
    /\ SubmittedMember("feedUnitType") = "GRAMS"
    /\ \A id \in SensorsOf("feedUnitType", "weight") :
            registry[id] = [unit_of_measurement |-> "g", display_precision |-> 0,
                            suggested_display_precision |-> 0]
    /\ "weightUnitType" \in ChangedFields
    /\ SubmittedMember("weightUnitType") = "KILOGRAMS"
    /\ \A id \in SensorsOf("weightUnitType", "weight") :
            registry[id].unit_of_measurement = "kg" /\ registry[id].display_precision = 2

NamedMember(cls, value) ==
    LET members == IF cls = "Gender" THEN {"NONE", "MALE", "FEMALE"} ELSE UnitMembers
        name == CASE value.t = "enum" -> value.v
                  [] value.t = "str" -> UpperTable[value.v]
                  [] OTHER -> "NONE"
    IN  IF name \in members THEN name ELSE ""

\* The form value of field k in the call.
CallValue(k) == DictGet(collect_call.user_input, k)

\* The converter of field k is enum validation (not a special converter).
EnumValidated(k) == k \notin collect_call.special /\ collect_call.enum_cls # ""

\* The value of field k, after normalisation, differs from the member's
\* current value.  A submitted value that fails enum validation is
\* normalised to None, which differs from every current value; a field with
\* enum validation that was not submitted has no value to differ.
NormalisedDiffers(k) ==
    LET current == collect_call.m[k]
    IN  CASE k \in collect_call.special /\ k = "nickname" ->
                (IF CallValue(k) \in {PyNone, PyStr("")} THEN "" ELSE CallValue(k).v)
                    # current.v
          [] k \in collect_call.special ->
                NamedMember("Gender", CallValue(k)) # current.v
          [] collect_call.enum_cls # "" ->
                /\ CallValue(k) # PyNone
                /\ NamedMember(collect_call.enum_cls, CallValue(k)) # current.v
          [] OTHER -> CallValue(k) # current

FailureCode(outcome) ==
    CASE outcome = "PetLibroCannotConnect" -> "cannot_connect"
      [] outcome = "PetLibroInvalidAuth" -> "invalid_auth"
      [] OTHER -> "unknown"

\* The user flow f leaves the login it awaited in this step.
UserLoginEnds(f) ==
    /\ flows[f].kind = "user"
    /\ flows[f].pc = "login"
    /\ flows'[f].pc # "login"

\* The entry data made of what login i was given and the token it returned.
DataOfLogin(i) ==
    [region |-> logins[i].region, email |-> logins[i].email,
     password |-> logins[i].password, api_token |-> i]

\* C7: the user step creates an entry only when the login made with the
\* submitted credentials returned, and the entry's data are then exactly the
\* submitted region, email and password with the token of that login; when
\* the login fails no entry is created and the user form is shown again
\* with errors["base"] set to the failure code.
C7_EntryOnlyAfterLogin ==
    [][ /\ \A f \in FlowIds : UserLoginEnds(f) =>
              LET i == flows[f].login
                  outcome == logins'[i].outcome
              IN  IF outcome = "ok"
                  THEN /\ Len(entries') = Len(entries) + 1
                       /\ entries'[Len(entries')].data = DataOfLogin(i)
                       /\ entries'[Len(entries')].created_by = f
                       /\ \A e \in 1..Len(entries) : entries'[e] = entries[e]
                       /\ flows'[f].result = "create_entry"
                  ELSE /\ entries' = entries
                       /\ flows'[f].pc = "form"
                       /\ flows'[f].errors = FailureCode(outcome)
        /\ Len(entries') # Len(entries) =>
              \E f \in FlowIds :
                  UserLoginEnds(f) /\ logins'[flows[f].login].outcome = "ok"
      ]_vars

\* An entry was created by a user flow whose login carried the password
\* "pw2", and another user flow is back on its form with an error.
C7_Witness ==
    /\ \E e \in 1..Len(entries) :
          /\ entries[e].created_by # 0
          /\ entries[e].data.password = "pw2"
          /\ entries[e].data.api_token > 0
    /\ \E f \in FlowIds :
          /\ flows[f].kind = "user"
          /\ flows[f].pc = "form"
          /\ flows[f].errors = "invalid_auth"

\* C8: after any sequence of setup submissions there is at most one entry
\* per email, and a submission whose email matches an existing entry is
\* aborted before any login is made and creates nothing.
C8_OneEntryPerEmail ==
    /\ \A i, j \in 1..Len(entries) :
          entries[i].data.email = entries[j].data.email => i = j
    /\ \A f \in FlowIds :
          flows[f].result = "abort:already_configured" =>
              /\ flows[f].created = 0
              /\ \A i \in 1..Len(logins) :
                    logins[i].flow = f => logins[i].outcome # "pending"

\* C9: _validate_input never raises; it returns "cannot_connect" when the
\* login raised PetLibroCannotConnect, "invalid_auth" when it raised
\* PetLibroInvalidAuth, "unknown" for any other exception, and the empty
\* string only when the login returned and its token was stored on the flow.
C9_ValidateInputNeverRaises ==
    \A i \in 1..Len(logins) :
        logins[i].outcome # "pending" =>
            /\ ~logins[i].result.raised
            /\ logins[i].outcome = "PetLibroCannotConnect" =>
                  logins[i].result.value = "cannot_connect"
            /\ logins[i].outcome = "PetLibroInvalidAuth" =>
                  logins[i].result.value = "invalid_auth"
            /\ logins[i].outcome = "Exception" =>
                  logins[i].result.value = "unknown"
            /\ logins[i].result.value = "" =>
                  /\ logins[i].outcome = "ok"
                  /\ logins[i].stored_token = i
            /\ flows[logins[i].flow].result # "raised"

\* One login returned and another raised an exception of neither class.
C9_Witness ==
    \E i, j \in 1..Len(logins) :
        /\ logins[i].outcome = "ok"
        /\ logins[i].result.value = ""
        /\ logins[j].outcome = "Exception"

\* The reauth flow f has updated its entry, and no later flow has.
ReauthUpdated(f) ==
    /\ flows[f].kind = "reauth"
    /\ flows[f].pc \in {"reload", "done"}
    /\ entries[flows[f].entry_id].updated_by = f

\* C10: a successful reauthentication replaces the entry's password and
\* token by the submitted password and the token of the new login, leaves
\* the entry's email and region as they were before it, reloads the entry
\* after the update of its data, and ends with "reauth_successful".
C10_ReauthReplacesPasswordAndToken ==
    \A f \in FlowIds :
        /\ ReauthUpdated(f) =>
              LET e == entries[flows[f].entry_id]
              IN  /\ logins[flows[f].login].outcome = "ok"
                  /\ e.data.password = logins[flows[f].login].password
                  /\ e.data.api_token = flows[f].login
                  /\ e.data.email = flows[f].data_before.email
                  /\ e.data.region = flows[f].data_before.region
                  /\ flows[f].pc = "done" =>
                        /\ e.reloads >= 1
                        /\ e.reloaded_data = e.data
                        /\ flows[f].result = "abort:reauth_successful"
        /\ (flows[f].kind = "reauth" /\ flows[f].pc = "done") =>
              /\ flows[f].result = "abort:reauth_successful"
              /\ logins[flows[f].login].outcome = "ok"
              /\ entries[flows[f].entry_id].reloads >= 1

\* A reauthentication with a password other than the entry's has ended.
C10_Witness ==
    \E f \in FlowIds :
        /\ ReauthUpdated(f)
        /\ flows[f].result = "abort:reauth_successful"
        /\ flows[f].data_before.password # entries[flows[f].entry_id].data.password
        /\ flows[f].data_before.api_token # entries[flows[f].entry_id].data.api_token

\* The reauth flow f leaves the login it awaited in this step.
ReauthLoginEnds(f) ==
    /\ flows[f].kind = "reauth"
    /\ flows[f].pc = "login"
    /\ flows'[f].pc # "login"

\* The logins of flow f, in the order they were made.
LoginsOf(f) == {i \in 1..Len(logins) : logins[i].flow = f}

\* C11: when the login of a reauthentication fails, the entry's data (old
\* password and token included) stay as they are, the entry is not
\* reloaded, and the reauth form is shown again with errors["base"] set to
\* the failure code; this holds after any number of failed attempts, and the
\* form that is shown again takes a further password, so that a later
\* successful attempt completes the reauthentication.
C11_FailedReauthChangesNothing ==
    [][ \A f \in FlowIds :
            (ReauthLoginEnds(f) /\ logins'[flows[f].login].outcome # "ok") =>
                /\ entries' = entries
                /\ flows'[f].pc = "form"
                /\ flows'[f].kind = "reauth"
                /\ flows'[f].entry_id = flows[f].entry_id
                /\ flows'[f].errors = FailureCode(logins'[flows[f].login].outcome)
                /\ flows'[f].errors # ""
                /\ flows'[f].result = ""
      ]_vars

\* A reauthentication failed once and then completed on the next attempt:
\* the entry holds the password and token of the attempt that succeeded.
C11_Witness ==
    \E f \in FlowIds :
        /\ flows[f].kind = "reauth"
        /\ flows[f].result = "abort:reauth_successful"
        /\ \E i, j \in LoginsOf(f) :
              /\ i < j
              /\ logins[i].outcome \notin {"ok", "pending"}
              /\ logins[j].outcome = "ok"
              /\ entries[flows[f].entry_id].data.api_token = j
              /\ entries[flows[f].entry_id].reloads = 1

\* ------------------------------------------------------------------------
\* Properties of the polled objects (SpecPolled, SpecMember, SpecDevice)
\* ------------------------------------------------------------------------

\* The operation in progress on the device ended in a refresh that ran to
\* its update_data.
RefreshCompleted(d) ==
    /\ d.op.pc = "done"
    /\ d.op.result = "returned"
    /\ Len(d.op.fetched) = Len(Fetches(d.kind))

\* The refresh of the operation ended, with update_data or without.
RefreshEnded(d) ==
    /\ d.op.pc = "done"
    /\ d.op.step >= 1

\* C12 as stated: after Member.refresh or a device refresh completes, every
\* value the object exposes comes from the response of that poll, and no
\* value of an earlier poll remains.
C12_MirrorsLatestPoll ==
    /\ mem.pc = "refreshed" =>
          \A k \in DOMAIN mem.data :
              k \in DOMAIN mem.poll /\ mem.data[k] = mem.poll[k]
    /\ (dev.kind # "none" /\ RefreshEnded(dev) /\ dev.op.result = "returned") =>
          \A k \in DOMAIN dev.data : dev.data[k] \in {Resp(dev.ops), EmptyResp}

\* C12 as amended: Member.refresh merges the response into the data, so a
\* key of the response holds the response's value and a key the response
\* lacks keeps the value it had; a device refresh whose fetches all returned
\* leaves every device-specific key holding the response of that refresh
\* ({} for None); a refresh that ended without update_data leaves the
\* device-specific keys as they were.
C12_MergesLatestPoll ==
    [][ /\ (mem'.pc = "refreshed" /\ mem'.view = NoView) =>
              /\ DOMAIN mem'.data = DOMAIN mem.data \cup DOMAIN mem'.poll
              /\ \A k \in DOMAIN mem'.data :
                    IF k \in DOMAIN mem'.poll
                    THEN mem'.data[k] = mem'.poll[k]
                    ELSE mem'.data[k] = mem.data[k]
        /\ (dev.op.pc = "refresh" /\ dev'.op.pc = "done") =>
              IF RefreshCompleted(dev')
              THEN \A i \in 2..Len(FetchKeys(dev'.kind)) :
                      dev'.data[FetchKeys(dev'.kind)[i]] =
                          IF dev'.op.fetched[i] = NoneResp
                          THEN EmptyResp ELSE Resp(dev'.ops)
              ELSE \A k \in DeviceSpecificKeys(dev'.kind) :
                      /\ k \in DOMAIN dev'.data <=> k \in DOMAIN dev'.before
                      /\ k \in DOMAIN dev'.data => dev'.data[k] = dev'.before[k]
      ]_vars

\* The member was refreshed with a response that lacks the gender, and the
\* gender of the earlier data is still there.
C12_Witness ==
    /\ mem.pc = "refreshed"
    /\ mem.poll = [k \in {"feedUnitType"} |-> RawInt(1)]
    /\ "gender" \in DOMAIN mem.data
    /\ mem.data["gender"] = RawInt(5)
    /\ mem.data["feedUnitType"] = RawInt(1)

\* ------------------------------------------------------------------------
\* Properties of the select entity (SpecSelect)
\* ------------------------------------------------------------------------

\* C13: after any sequence of async_select_option calls and polls,
\* current_option is the option the device reported in the latest poll
\* whenever that option is one of the entity's options: an option chosen
\* earlier through the entity does not mask a later change the device
\* reports.
C13_CurrentOptionFollowsDevice ==
    (Len(sel.log) > 0 /\ sel.log[Len(sel.log)].e = "poll") =>
        LET reported == water_dispensing_mode(sel.useWaterType)
        IN  reported \in SelectOptions =>
                current_option(sel.attr_current_option, sel.useWaterType) = reported

\* ------------------------------------------------------------------------
\* Properties of the devices (SpecDevice)
\* ------------------------------------------------------------------------

\* Where the refresh begins in the trace of the operation: after the call
\* and the return of the control call, if there was one.
RefreshFrom(d) == IF d.op.type = "control" THEN 3 ELSE 1

\* The events of the refresh of the operation, in order.
RefreshTrace(d) ==
    IF d.op.step = 0 THEN <<>>
    ELSE SubSeq(d.op.trace, RefreshFrom(d), Len(d.op.trace))

\* How often update_data was called by the refresh of the subclass.
Updates(t) == Cardinality({j \in 1..Len(t) : t[j][1] = "update_data"})

\* C14: within one device refresh the fetches are issued one after another
\* in the fixed order of the code (the refresh of the base class, then the
\* fetches of the subclass), each starting only after the one before it
\* returned; update_data is called once, after the last fetch returned, and
\* a missing response is replaced by the empty dict.
C14_SequentialFetchesOneUpdate ==
    dev.kind # "none" =>
        LET t == RefreshTrace(dev)
            names == Fetches(dev.kind)
        IN  /\ \A j \in 1..Len(t) :
                  /\ t[j][1] = "call" =>
                        /\ j % 2 = 1
                        /\ (j + 1) \div 2 <= Len(names)
                        /\ t[j][2] = names[(j + 1) \div 2]
                        /\ j > 1 => t[j - 1] = <<"return", names[(j - 1) \div 2]>>
                  /\ t[j][1] \in {"return", "raise"} =>
                        /\ j % 2 = 0
                        /\ t[j - 1] = <<"call", t[j][2]>>
                  /\ t[j][1] = "update_data" =>
                        /\ j = 2 * Len(names) + 1
                        /\ j = Len(t)
                        /\ t[j - 1] = <<"return", names[Len(names)]>>
            /\ Updates(t) <= 1
            /\ RefreshCompleted(dev) =>
                  /\ Updates(t) = 1
                  /\ \A i \in 2..Len(names) :
                        dev.data[FetchKeys(dev.kind)[i]] =
                            IF dev.op.fetched[i] = NoneResp
                            THEN EmptyResp ELSE dev.op.fetched[i]

\* A camera feeder refresh ran its six steps in order, the real info came
\* back missing, and update_data stored {} for it.
C14_Witness ==
    /\ dev.kind = "feeder"
    /\ RefreshCompleted(dev)
    /\ Len(RefreshTrace(dev)) = 13
    /\ RefreshTrace(dev)[11] = <<"call", "device_feeding_plan_today_new">>
    /\ dev.op.fetched[3] = NoneResp
    /\ dev.data["realInfo"] = EmptyResp
    /\ dev.data["grainStatus"] = Resp(dev.ops)

\* The quantity is a number from 1 to 12.
InRange(quantity) == quantity.t = "num" /\ 1 <= quantity.n /\ quantity.n <= 12

\* C15: after any sequence of set_manual_feed_quantity calls with arbitrary
\* values the feeder's manual_feed_quantity lies in 1..12, and every
\* set_manual_feed sends the API the quantity the feeder holds, a quantity
\* in that range, which is 1 when no quantity was ever set.
C15_ManualFeedQuantityInRange ==
    [][ /\ InRange(manual_feed_quantity(dev'.quantity))
        /\ dev'.op.name = "set_manual_feed" =>
              /\ InRange(dev'.op.sent)
              /\ dev'.op.sent = dev'.quantity
        /\ (dev'.ops = dev.ops + 1 /\ dev'.op.name = "set_manual_feed") =>
              dev'.op.sent = manual_feed_quantity(dev.quantity)
        /\ (dev'.ops = dev.ops + 1 /\ dev'.op.name = "set_manual_feed"
                /\ dev.quantity = NoNumber) =>
              dev'.op.sent = Num(1)
      ]_vars

\* The quantity was set with 40 and the manual feed that followed sent 12.
C15_Witness ==
    /\ dev.kind = "feeder"
    /\ dev.ops = 2
    /\ dev.op.name = "set_manual_feed"
    /\ dev.op.pc = "done"
    /\ dev.op.result = "returned"
    /\ dev.op.sent = Num(12)

\* ------------------------------------------------------------------------
\* Properties of the member (SpecMember)
\* ------------------------------------------------------------------------

\* The lower-cased names of the members of UnitTypes, and of Gender.
UnitNames == {"cups", "ounces", "grams", "milliliters", "kilograms", "pounds"}

GenderNames == {"none", "male", "female"}

\* The stored value of the key is missing, or is not the value of a member
\* of the enum whose values are lo..hi.
NotKnown(data, key, lo, hi) ==
    \/ key \notin DOMAIN data
    \/ data[key].t # "int"
    \/ data[key].n < lo
    \/ data[key].n > hi

\* C17: for any account data, feedUnitType, waterUnitType and
\* weightUnitType return the lower-cased name of a member of UnitTypes, the
\* default (cups, ounces, pounds) when the stored value is missing or is
\* no known unit; gender returns none, male or female, none when the stored
\* value is missing or unknown; none of the four raises.
C17_UnitAndGenderFallBack ==
    (mem.pc # "absent" /\ mem.view # NoView) =>
        /\ \A p \in DOMAIN mem.view : ~mem.view[p].raised
        /\ \A p \in {"feedUnitType", "waterUnitType", "weightUnitType"} :
              mem.view[p].value \in UnitNames
        /\ mem.view["gender"].value \in GenderNames
        /\ NotKnown(mem.data, "feedUnitType", 1, 6) => mem.view["feedUnitType"].value = "cups"
        /\ NotKnown(mem.data, "waterUnitType", 1, 6) => mem.view["waterUnitType"].value = "ounces"
        /\ NotKnown(mem.data, "weightUnitType", 1, 6) => mem.view["weightUnitType"].value = "pounds"
        /\ NotKnown(mem.data, "gender", 0, 2) => mem.view["gender"].value = "none"
        /\ \A p \in {"feedUnitType", "waterUnitType", "weightUnitType"} :
              ~NotKnown(mem.data, p, 1, 6) =>
                  UpperTable[mem.view[p].value] = UnitTypes[mem.data[p].n]
        /\ ~NotKnown(mem.data, "gender", 0, 2) =>
              UpperTable[mem.view["gender"].value] = Gender[mem.data["gender"].n]

\* The properties were read over data whose feed unit is the string "3",
\* whose water unit is missing, whose weight unit is 7 and whose gender is
\* null: each fell back to its default.
C17_Witness ==
    /\ mem.pc # "absent"
    /\ mem.view # NoView
    /\ "waterUnitType" \notin DOMAIN mem.data
    /\ DOMAIN mem.data = MemberKeys \ {"waterUnitType"}
    /\ mem.data["feedUnitType"] = RawStr("3")
    /\ mem.data["weightUnitType"] = RawInt(7)
    /\ mem.data["gender"] = RawNone
    /\ mem.view["feedUnitType"].value = "cups"
    /\ mem.view["waterUnitType"].value = "ounces"
    /\ mem.view["weightUnitType"].value = "pounds"
    /\ mem.view["gender"].value = "none"

\* The positions of the trace at which a call on a control endpoint starts.
ControlCalls(d) ==
    {j \in 1..Len(d.op.trace) :
        d.op.trace[j][1] = "call" /\ d.op.trace[j][2] \in ControlMethods(d.kind)}

\* The positions of the trace at which a refresh starts.
RefreshStarts(d) ==
    {j \in 1..Len(d.op.trace) : d.op.trace[j] = <<"call", Fetches(d.kind)[1]>>}

\* C18: every control method (the methods that call a control endpoint)
\* issues exactly one control call, first of all, and starts the refresh
\* only after that call returned without raising, at most once; no step of
\* a refresh precedes the return of the control call, and a control call
\* that raised is followed by no refresh.
C18_RefreshOnlyAfterControlReturned ==
    (dev.kind # "none" /\ dev.op.type = "control") =>
        LET t == dev.op.trace
        IN  /\ ControlCalls(dev) = {1}
            /\ t[1] = <<"call", dev.op.name>>
            /\ dev.op.pc = "control" <=> Len(t) = 1
            /\ RefreshStarts(dev) \subseteq {3}
            /\ RefreshStarts(dev) = {3} <=> (Len(t) >= 2 /\ t[2] = <<"return", dev.op.name>>)
            /\ \A j \in 2..Len(t) :
                  t[j][2] \in {Fetches(dev.kind)[i] : i \in 1..Len(Fetches(dev.kind))} =>
                      /\ j >= 3
                      /\ t[2] = <<"return", dev.op.name>>
            /\ (Len(t) >= 2 /\ t[2] = <<"raise", dev.op.name>>) =>
                  /\ Len(t) = 2
                  /\ dev.op.pc = "done"
                  /\ dev.op.step = 0

\* set_light_switch of the fountain ended: one control call that returned,
\* then the whole refresh.
C18_Witness ==
    /\ dev.kind = "fountain"
    /\ dev.op.name = "set_light_switch"
    /\ dev.op.pc = "done"
    /\ dev.op.result = "returned"
    /\ dev.op.trace = <<<<"call", "set_light_switch">>, <<"return", "set_light_switch">>,
                        <<"call", "Device.refresh">>, <<"return", "Device.refresh">>,
                        <<"call", "device_real_info">>, <<"return", "device_real_info">>,
                        <<"update_data", "">>>>

\* C19: when the control call of a control method of the feeder or of the
\* fountain raises aiohttp.ClientError, the method raises PetLibroAPIError,
\* performs no refresh and leaves the cached data of the device unchanged.
C19_ClientErrorBecomesPetLibroAPIError ==
    [][ (Device_control_returns("ClientError") /\ dev.kind \in {"feeder", "fountain"}) =>
            /\ dev'.op.pc = "done"
            /\ dev'.op.result = "PetLibroAPIError"
            /\ RefreshStarts(dev') = {}
            /\ dev'.data = dev'.before
      ]_vars

\* C20: if a fetch of a refresh of the camera feeder or of the litter box
\* raises PetLibroAPIError, the refresh does not raise, logs the error and
\* does not call update_data: every device-specific key holds what it held
\* before the refresh, or is still absent, also when earlier fetches of the
\* same refresh had returned.
C20_FailedRefreshKeepsDeviceKeys ==
    [][ (Device_fetch_returns("PetLibroAPIError") /\ dev.kind \in {"feeder", "litterbox"}) =>
            /\ dev'.op.pc = "done"
            /\ dev'.op.result = "returned"
            /\ dev'.op.trace[Len(dev'.op.trace)] = <<"log_error", "">>
            /\ Updates(dev'.op.trace) = 0
            /\ \A k \in DeviceSpecificKeys(dev.kind) :
                  /\ k \in DOMAIN dev'.data <=> k \in DOMAIN dev'.before
                  /\ k \in DOMAIN dev'.data => dev'.data[k] = dev'.before[k]
      ]_vars

\* A refresh of the feeder whose fourth fetch raised after three had
\* returned: it returned, logged, and the keys hold the earlier telemetry.
C20_Witness ==
    /\ dev.kind = "feeder"
    /\ dev.op.type = "poll"
    /\ dev.op.pc = "done"
    /\ dev.op.result = "returned"
    /\ Len(dev.op.fetched) = 3
    /\ dev.op.fetched[2] = Resp(dev.ops)
    /\ dev.op.trace[Len(dev.op.trace)] = <<"log_error", "">>
    /\ dev.op.trace[Len(dev.op.trace) - 1] = <<"raise", "device_attribute_settings">>
    /\ "grainStatus" \in DOMAIN dev.data
    /\ dev.data["grainStatus"] = Old
    /\ dev.data["realInfo"] = Old

\* ------------------------------------------------------------------------
\* Properties of the fountain's water schedule (SpecFountain)
\* ------------------------------------------------------------------------

\* The value the cache holds under key, 0 when it holds none.
CachedOrZero(realInfo, key) ==
    IF key \in DOMAIN realInfo /\ realInfo[key].t = "num" THEN realInfo[key] ELSE Num(0)

\* The positions of the trace of a call at which a refresh starts.
RefreshCalls(call) ==
    {j \in 1..Len(call.trace) : call.trace[j] = <<"call", "refresh">>}

\* Call c was started in this step.
Started(c) == c = Len(fnt'.calls) /\ Len(fnt'.calls) = Len(fnt.calls) + 1

\* C21: choosing "Intermittent Water (Scheduled)" on the fountain's select
\* sends set_water_mode_intermittent and any other option sends
\* set_water_mode_constant, with the interval and the duration the device
\* cache holds when the call is made (0 when it holds none); the device is
\* refreshed once, after the command returned, and not at all when the
\* command raised.
C21_SelectSendsCachedSchedule ==
    [][ \A c \in 1..Len(fnt'.calls) :
            fnt'.calls[c].kind = "select" =>
                LET call == fnt'.calls[c]
                IN  /\ call.cmd.name =
                            IF call.option = "Intermittent Water (Scheduled)"
                            THEN "set_water_mode_intermittent"
                            ELSE "set_water_mode_constant"
                    /\ Started(c) =>
                        /\ call.cmd.interval = CachedOrZero(fnt.realInfo, "useWaterInterval")
                        /\ call.cmd.duration = CachedOrZero(fnt.realInfo, "useWaterDuration")
                        /\ call.trace = <<<<"call", call.cmd.name>>>>
                    /\ call.trace[1] = <<"call", call.cmd.name>>
                    /\ RefreshCalls(call) \subseteq {3}
                    /\ RefreshCalls(call) = {3} <=>
                            (Len(call.trace) >= 2 /\ call.trace[2] = <<"return", call.cmd.name>>)
                    /\ (call.pc = "done" /\ call.trace[2] = <<"return", call.cmd.name>>) =>
                            Cardinality(RefreshCalls(call)) = 1
      ]_vars

\* The intermittent mode was chosen while the cache held interval 1 and
\* duration 2: the command carried them, the refresh followed its return
\* and stored the new mode.
C21_Witness ==
    /\ fnt.pc = "ready"
    /\ Len(fnt.calls) = 1
    /\ fnt.calls[1].kind = "select"
    /\ fnt.calls[1].option = "Intermittent Water (Scheduled)"
    /\ fnt.calls[1].cmd = [name |-> "set_water_mode_intermittent", mode |-> NoArg,
                           interval |-> Num(1), duration |-> Num(2)]
    /\ fnt.calls[1].trace = <<<<"call", "set_water_mode_intermittent">>,
                              <<"return", "set_water_mode_intermittent">>,
                              <<"call", "refresh">>, <<"return", "refresh">>,
                              <<"write_state", "">>>>
    /\ fnt.realInfo["useWaterType"] = Num(1)

\* C22: current_option returns None or one of the options of the entity,
\* whatever the device cache holds (a mode that maps to "Unknown", no
\* value, a null) and also when the current_selection callback raises.
C22_CurrentOptionIsNoneOrOption ==
    fnt.pc = "ready" =>
        /\ fnt.view # "unread" => fnt.view \in SelectOptions \cup {"None"}
        /\ \A raises \in BOOLEAN :
              current_option_read(fnt.attr_current_option, fnt.realInfo, raises)
                    \in SelectOptions \cup {"None"}

\* current_option was read as None while no option was stored and the
\* cache held a null mode, which the device maps to "Unknown".
C22_Witness ==
    /\ fnt.pc = "ready"
    /\ fnt.view = "None"
    /\ fnt.attr_current_option = "None"
    /\ fnt.realInfo = [k \in ScheduleKeys |-> NoNumber]
    /\ Len(fnt.calls) = 1
    /\ fnt.calls[1].kind = "refresh"
    /\ fnt.calls[1].pc = "done"

\* The select call c ends in this step.
SelectEnds(c) ==
    /\ c \in 1..Len(fnt.calls)
    /\ fnt.calls[c].kind = "select"
    /\ fnt.calls[c].pc # "done"
    /\ fnt'.calls[c].pc = "done"

\* An awaited call of the call raised.
Raised(call) == \E j \in 1..Len(call.trace) : call.trace[j][1] = "raise"

\* How often the call wrote the state.
StateWrites(call) ==
    Cardinality({j \in 1..Len(call.trace) : call.trace[j][1] = "write_state"})

\* C23: async_select_option never raises; when the command behind it (the
\* API call or the refresh) raised, the stored current option is unchanged
\* and no state is written; when the command succeeded with an option of
\* the options list, the stored current option becomes that option and the
\* state is written once.
C23_SelectOptionSwallowsErrors ==
    [][ \A c \in 1..MaxCalls :
            SelectEnds(c) =>
                LET call == fnt'.calls[c]
                IN  /\ call.result = "returned"
                    /\ Raised(call) =>
                        /\ fnt'.attr_current_option = fnt.attr_current_option
                        /\ fnt'.writes = fnt.writes
                        /\ StateWrites(call) = 0
                        /\ call.trace[Len(call.trace)] = <<"log_error", "">>
                    /\ (~Raised(call) /\ call.option \in SelectOptions) =>
                        /\ fnt'.attr_current_option = call.option
                        /\ fnt'.writes = fnt.writes + 1
                        /\ StateWrites(call) = 1
      ]_vars

\* The first choice succeeded and was stored; the command of the second
\* raised, and the stored option and the number of writes are those of the
\* first.
C23_Witness ==
    /\ fnt.pc = "ready"
    /\ Len(fnt.calls) = 2
    /\ fnt.calls[1].kind = "select" /\ fnt.calls[2].kind = "select"
    /\ fnt.calls[1].option = "Flowing Water (Constant)"
    /\ fnt.calls[2].option = "Intermittent Water (Scheduled)"
    /\ fnt.calls[1].pc = "done" /\ fnt.calls[2].pc = "done"
    /\ ~Raised(fnt.calls[1])
    /\ fnt.calls[2].trace = <<<<"call", "set_water_mode_intermittent">>,
                              <<"raise", "set_water_mode_intermittent">>,
                              <<"log_error", "">>>>
    /\ fnt.calls[2].result = "returned"
    /\ fnt.attr_current_option = "Flowing Water (Constant)"
    /\ fnt.writes = 1

\* The value the cache holds under key (a number or a null), 0 when the key
\* is absent.
CachedValue(realInfo, key) == IF key \in DOMAIN realInfo THEN realInfo[key] ELSE Num(0)

\* The cache holds a number under every key of the schedule.
FullReport(realInfo) ==
    /\ DOMAIN realInfo = ScheduleKeys
    /\ \A k \in ScheduleKeys : realInfo[k].t = "num"

\* The command of call c returns without error in this step.
CommandApplied(c) ==
    /\ c \in 1..Len(fnt.calls)
    /\ fnt.calls[c].pc = "command"
    /\ fnt'.calls[c].pc = "refresh"

\* Call c has run alone so far: no call was in progress when it was made,
\* and none was made since.
RanAlone(c) == fnt.calls[c].overlaps = {} /\ c = Len(fnt.calls)

\* C25: the command of set_water_interval carries the new interval and the
\* mode and duration the device cache holds when the call is made, that of
\* set_water_dispensing_duration the new duration and the cached mode and
\* interval (0 for an absent key); when the call runs alone over a cache
\* that holds the device's report, the vendor's other two parameters are
\* after the command what the device last reported.
C25_ScheduleChangeKeepsOthers ==
    [][ \A c \in 1..Len(fnt'.calls) :
            LET call == fnt'.calls[c]
            IN  /\ (Started(c) /\ call.kind = "set_water_interval") =>
                        call.cmd = [name |-> "set_water_interval",
                                    mode |-> CachedValue(fnt.realInfo, "useWaterType"),
                                    interval |-> call.value,
                                    duration |-> CachedValue(fnt.realInfo, "useWaterDuration")]
                /\ (Started(c) /\ call.kind = "set_water_dispensing_duration") =>
                        call.cmd = [name |-> "set_water_dispensing_duration",
                                    mode |-> CachedValue(fnt.realInfo, "useWaterType"),
                                    interval |-> CachedValue(fnt.realInfo, "useWaterInterval"),
                                    duration |-> call.value]
                /\ (CommandApplied(c) /\ RanAlone(c)
                        /\ FullReport(fnt.realInfo)
                        /\ call.kind = "set_water_interval") =>
                        fnt'.vendor = [fnt.realInfo EXCEPT !["useWaterInterval"] = call.value]
                /\ (CommandApplied(c) /\ RanAlone(c)
                        /\ FullReport(fnt.realInfo)
                        /\ call.kind = "set_water_dispensing_duration") =>
                        fnt'.vendor = [fnt.realInfo EXCEPT !["useWaterDuration"] = call.value]
      ]_vars

\* The interval was set to 3 and, after that call had ended, the duration
\* to 4: the second command carried the interval 3 and the vendor holds
\* both, with the mode it had.
C25_Witness ==
    /\ fnt.pc = "ready"
    /\ Len(fnt.calls) = 2
    /\ fnt.calls[1].kind = "set_water_interval"
    /\ fnt.calls[2].kind = "set_water_dispensing_duration"
    /\ fnt.calls[2].overlaps = {}
    /\ fnt.calls[2].pc = "done" /\ fnt.calls[2].result = "returned"
    /\ fnt.commands =
        <<[name |-> "set_water_interval", mode |-> Num(1),
           interval |-> Num(3), duration |-> Num(2)],
          [name |-> "set_water_dispensing_duration", mode |-> Num(1),
           interval |-> Num(3), duration |-> Num(4)]>>
    /\ fnt.vendor = [useWaterType |-> Num(1), useWaterInterval |-> Num(3),
                     useWaterDuration |-> Num(4)]
    /\ fnt.realInfo = fnt.vendor

\* C26: when set_water_interval(i) and set_water_dispensing_duration(d) on
\* the same fountain run concurrently, interleaved at their awaits, then
\* after both completed the schedule at the vendor has interval i and
\* duration d.
C26_ConcurrentChangesBothKept ==
    (/\ fnt.pc = "ready"
     /\ Len(fnt.calls) = 2
     /\ {fnt.calls[1].kind, fnt.calls[2].kind} =
            {"set_water_interval", "set_water_dispensing_duration"}
     /\ fnt.calls[2].overlaps = {1}
     /\ \A c \in 1..2 : fnt.calls[c].pc = "done" /\ fnt.calls[c].result = "returned") =>
        \E c, e \in 1..2 :
            /\ fnt.calls[c].kind = "set_water_interval"
            /\ fnt.calls[e].kind = "set_water_dispensing_duration"
            /\ fnt.vendor["useWaterInterval"] = fnt.calls[c].value
            /\ fnt.vendor["useWaterDuration"] = fnt.calls[e].value

\* ------------------------------------------------------------------------
\* Properties of the number entities (SpecNumber)
\* ------------------------------------------------------------------------

\* A coordinator update is handled in this step.
Handles == num'.handled = num.handled + 1

\* The entity is one of the manual-feed numbers.
ManualFeedNumber == num.petlibro_unit = "feedUnitType"

\* The enabled flag the manual-feed numbers should have: the member's feed
\* unit is not cups, or portions are enabled.
ShouldBeEnabled == num.feedUnitType # "CUPS" \/ num.options_portions

ValidValue(k, v) ==
    CASE k = "nickname" -> v.t = "str"
      [] k = "gender" -> v.t \in {"enum", "int"} /\ v.c = "Gender" /\ v.v \in GenderMembers
      [] OTHER -> v.t \in {"enum", "int"} /\ v.c = "Unit" /\ v.v \in UnitMembers

\* The call is one of the two async_step_account_settings makes.
AccountSettingsCall ==
    collect_call.enum_cls = "Unit" \/ collect_call.special = InfoFields

\* C27: every value of the update_info and update_setting dictionaries that
\* collect_updates builds for member_update_info is a valid value of its
\* field; a submitted gender or unit that fails enum validation is not in
\* the dictionary, in particular not as None.
C27_UpdatesHoldValidValues ==
    (collect_call.pc = "returned" /\ AccountSettingsCall) =>
        \A k \in DOMAIN collect_call.result : ValidValue(k, collect_call.result[k])

\* The step has ended after a submission that did not ask for all units.
EndedAfterUnitChange ==
    /\ Submitted
    /\ options_flow.pc = "done"
    /\ ~options_flow.update_all_units

\* C28: when account_settings ends, every sensor unit override it wrote
\* agrees with the account: the unit written for a sensor of a unit type is
\* the member's unit of that type after the forced refresh, also when
\* member_update_info reported an error.  (Stated for a submission without
\* update_all_units, where a sensor receives the unit of its own type.)
C28_WrittenUnitsAgreeWithAccount ==
    EndedAfterUnitChange =>
        \A w \in options_flow.writes :
            w[2].unit_of_measurement = symbol(member[w[1][1]].v)

\* The same without the error: holds.
C28_AgreeWhenNoError ==
    (EndedAfterUnitChange /\ options_flow.no_error) =>
        \A w \in options_flow.writes :
            w[2].unit_of_measurement = symbol(member[w[1][1]].v)

\* ------------------------------------------------------------------------
\* Properties of the member entity (SpecMemberEntity)
\* ------------------------------------------------------------------------

\* C29: whenever MemberEntity writes its state in response to a member
\* update event, its extra_state_attributes equal the member's current
\* to_dict(): the attributes never lag behind the member data that
\* triggered the write.
C29_EventWriteShowsCurrentMember ==
    \A j \in 1..Len(ment.writes) :
        ment.writes[j].cause = "event" =>
            ment.writes[j].attributes = ment.writes[j].member

\* A write after a poll shows the member as it is.
C29_PollWriteShowsCurrentMember ==
    \A j \in 1..Len(ment.writes) :
        ment.writes[j].cause = "poll" =>
            ment.writes[j].attributes = ment.writes[j].member

\* C30: members of distinct accounts have distinct entity_id values, and
\* the MemberEntity made for them distinct unique ids, also when the
\* account data carries no account id.
C30_DistinctAccountsDistinctIds ==
    \A a, b \in AccountIds :
        (a # b /\ ment.entities[a].made /\ ment.entities[b].made) =>
            /\ entity_id(ment.members[a]) # entity_id(ment.members[b])
            /\ ment.entities[a].unique_id # ment.entities[b].unique_id

\* Members whose data carries the account id have distinct entity ids.
C30_DistinctWhenIdPresent ==
    \A a, b \in AccountIds :
        (a # b /\ "id" \in DOMAIN ment.members[a] /\ "id" \in DOMAIN ment.members[b])
            => entity_id(ment.members[a]) # entity_id(ment.members[b])

====
